---- MODULE Spec2Model ----
(***************************************************************************)
(* Intent routing and multi-stage agent orchestration:                     *)
(*   agents/router_agent.py   RouterAgent                                  *)
(*   agents/csv_agent.py      CSVAnalysisAgent                             *)
(*   agents/code_gen_agent.py CodeGenerationAgent                          *)
(*   agents/pdf_agent.py      PDFExtractionAgent                           *)
(*   agents/tools.py          FileSystemTools                              *)
(*                                                                         *)
(* Python strings on which the code does substring, suffix or case work    *)
(* are sequences of one-character strings; a dict is a function whose      *)
(* DOMAIN is the set of its keys; an f-string is the tuple of its parts.   *)
(* A raised exception is the value Raise(e); an envelope is a dict.        *)
(***************************************************************************)
EXTENDS Integers, Sequences, FiniteSets, TLC

VARIABLES
    pc,          \* "idle" | "ready" (a RouterAgent exists) | "returned"
    call,        \* the entry point called on the router and its arguments
    world,       \* what each collaborator does when the call consults it
    env,         \* what the call gave back: an envelope, or Raise(e)
    trace,       \* the handlers entered and collaborators called, in order
    agent,       \* the fields of a CSVAnalysisAgent
    file,        \* the CSV file the agent is asked about
    envelopes,   \* what the analyze_csv calls made on the agent returned, in order
    table,       \* the table pandas reads from the CSV file, or a read failure
    quality,     \* what check_data_quality returned on it; None before the call
    handlers,    \* the handlers of the process-wide 'csv_actions' logger, in order of registration
    logfiles,    \* the records appended to each log file, in order
    console,     \* the records written to the terminal, in order
    today,       \* the calendar date
    threads,     \* each request thread: its position, and the fields of the CSVActionLogger it made
    results,     \* the log_file of each action result given back
    session,     \* whether a chat session has been created
    messages,    \* the ChatMessage rows of the session, in order of creation
    executions,  \* the AgentExecution rows of the session, in order of creation
    served       \* the request a view answered in the session: what it did, in order, and its response; None before

routerVars == <<pc, call, world, env, trace>>
twiceVars == <<agent, file, envelopes>>
qualityVars == <<table, quality>>
loggerVars == <<handlers, logfiles, console, today, threads, results>>
viewVars == <<session, messages, executions, served>>
vars == <<routerVars, twiceVars, qualityVars, loggerVars, viewVars>>
notRouterVars == <<twiceVars, qualityVars, loggerVars, viewVars>>
notTwiceVars == <<routerVars, qualityVars, loggerVars, viewVars>>
notQualityVars == <<routerVars, twiceVars, loggerVars, viewVars>>
notLoggerVars == <<routerVars, twiceVars, qualityVars, viewVars>>
notViewVars == <<routerVars, twiceVars, qualityVars, loggerVars>>

----------------------------------------------------------------------------
(* Strings *)

UpperChars ==
    <<"A","B","C","D","E","F","G","H","I","J","K","L","M","N","O","P","Q","R","S","T","U","V","W","X","Y","Z">>
LowerChars ==
    <<"a","b","c","d","e","f","g","h","i","j","k","l","m","n","o","p","q","r","s","t","u","v","w","x","y","z">>
DigitChars ==
    <<"0","1","2","3","4","5","6","7","8","9">>

Range(s) == {s[i] : i \in DOMAIN s}

\* str.lower() on one character
LowerChar(c) ==
    IF c \in Range(UpperChars)
    THEN LowerChars[CHOOSE i \in DOMAIN UpperChars : UpperChars[i] = c]
    ELSE c

\* str.lower()
Lower(s) == [i \in 1..Len(s) |-> LowerChar(s[i])]

HasAt(s, sub, i) == \A j \in 1..Len(sub) : s[i + j - 1] = sub[j]

\* Python's  sub in s
Contains(sub, s) == \E i \in 1..(Len(s) - Len(sub) + 1) : HasAt(s, sub, i)

\* str.endswith
EndsWith(s, suffix) ==
    /\ Len(s) >= Len(suffix)
    /\ HasAt(s, suffix, Len(s) - Len(suffix) + 1)

----------------------------------------------------------------------------
(* Exceptions and traces *)

Raise(e) == [raise |-> e]
IsRaise(r) == "raise" \in DOMAIN r

\* dict item assignment  d[k] = v
Put(d, k, v) == [x \in DOMAIN d \cup {k} |-> IF x = k THEN v ELSE d[x]]

\* dict.get(k, default)
Get(d, k, default) == IF k \in DOMAIN d THEN d[k] ELSE default

Ev(op) == [op |-> op]
Ops(tr) == {tr[i].op : i \in DOMAIN tr}
Count(tr, op) == Cardinality({i \in DOMAIN tr : tr[i].op = op})

\* a handler's outcome: what it returned or raised, and what it called
Res(out, tr) == [out |-> out, tr |-> tr]

----------------------------------------------------------------------------
(* Completion responses: text as a sequence of tokens.  A token is a fence
   tagged json, a bare fence, whitespace, prose, or the text of one JSON
   value (j names the value json.loads gives for it). *)

NoJson == [k |-> "none"]
Tok(t) == [t |-> t, j |-> NoJson]
JsonTok(j) == [t |-> "json", j |-> j]

\* str.strip(): whitespace off both ends
RECURSIVE LStrip(_)
LStrip(s) == IF s # <<>> /\ Head(s).t = "ws" THEN LStrip(Tail(s)) ELSE s
RECURSIVE RStrip(_)
RStrip(s) ==
    IF s # <<>> /\ s[Len(s)].t = "ws" THEN RStrip(SubSeq(s, 1, Len(s) - 1)) ELSE s
Strip(s) == RStrip(LStrip(s))

IsFence(tok) == tok.t \in {"fence", "jsonfence"}

\* text.split(sep)[0]: the text before the first token in seps
Before(s, seps) ==
    IF \E i \in DOMAIN s : s[i].t \in seps
    THEN SubSeq(s, 1, (CHOOSE i \in DOMAIN s :
                          /\ s[i].t \in seps
                          /\ \A h \in 1..(i - 1) : s[h].t \notin seps) - 1)
    ELSE s

\* the text after the first token in seps (the token itself dropped)
After(s, seps) ==
    LET i == CHOOSE n \in DOMAIN s :
                 /\ s[n].t \in seps
                 /\ \A h \in 1..(n - 1) : s[h].t \notin seps
    IN SubSeq(s, i + 1, Len(s))

\* a candidate taken without looking for fences: the whole trimmed text
JsonCandidate_Whole(text) == Strip(text)

\* the text handed to json.loads:
\*   if '```json' in t: t.split('```json')[1].split('```')[0].strip()
\*   elif '```' in t:   t.split('```')[1].split('```')[0].strip()
\* '```json' holds '```', so the inner split stops at either kind of fence.
JsonCandidate(text) ==
    LET t == Strip(text) IN
    IF \E i \in DOMAIN t : t[i].t = "jsonfence"
    THEN Strip(Before(After(t, {"jsonfence"}), {"fence", "jsonfence"}))
    ELSE IF \E i \in DOMAIN t : t[i].t = "fence"
    THEN Strip(Before(After(t, {"fence"}), {"fence"}))
    ELSE t

\* json.loads: exactly one JSON value, whitespace around it allowed
JsonLoads(cand) ==
    LET c == Strip(cand) IN
    IF Len(c) = 1 /\ c[1].t = "json"
    THEN [ok |-> TRUE, j |-> c[1].j]
    ELSE [ok |-> FALSE, j |-> NoJson]

----------------------------------------------------------------------------
(* Inputs of the entry points and outcomes of the collaborators *)

None == [none |-> TRUE]

M_Factorial ==
    <<"W","r","i","t","e"," ","a"," ","f","u","n","c","t","i","o","n"," ","t","o"," ","c","a","l","c","u","l","a","t","e"," ","f","a","c","t","o","r","i","a","l">>
M_Hello ==
    <<"H","e","l","l","o"," ","t","h","e","r","e">>

M_SortScript ==
    <<"C","r","e","a","t","e"," ","a"," ","P","y","t","h","o","n"," ","s","c","r","i","p","t"," ","t","o"," ","s","o","r","t"," ","t","h","e"," ","l","i","s","t"," ","o","f"," ","n","u","m","b","e","r","s"," ","q","u","i","c","k","l","y","!">>
M_MakeCode ==
    <<"M","a","k","e"," ","t","h","e"," ","c","o","d","e","!">>
M_Implementation ==
    <<"i","m","p","l","e","m","e","n","t","a","t","i","o","n"," ","i","m","p","l","e","m","e","n","t","a","t","i","o","n"," ","i","m","p","l","e","m","e","n","t","a","t","i","o","n"," ","i","m","p","l","e","m","e","n","t","a","t","i","o","n">>

\* process_message(message, ...)
Messages == {M_Factorial, M_Hello, M_SortScript, M_MakeCode, M_Implementation}

\* what a completion call does: it returns text, or it raises
Failed(e) == [ok |-> FALSE, text |-> <<>>, err |-> e]
Returned(text) == [ok |-> TRUE, text |-> text, err |-> ""]

\* the value of the confidence threshold, in hundredths
ConfidenceThreshold == 60

\* the JSON values a classifier response may hold; "absent" marks a key the
\* object does not have, confKind "str" a confidence that is not a number
IntentTypes == {"code_generation", "general_chat", "question", "absent"}
IntentLanguages == {"python", "javascript", "rust", "absent"}
Confidences ==
    {0, 40, ConfidenceThreshold - 1, ConfidenceThreshold, ConfidenceThreshold + 1, 100}
IntentJson ==
    [k : {"dict"}, type : IntentTypes, language : IntentLanguages,
     confKind : {"num"}, conf : Confidences]
    \cup [k : {"dict"}, type : IntentTypes, language : IntentLanguages,
          confKind : {"absent", "str"}, conf : {0}]
    \cup {[k |-> "list", type |-> "absent", language |-> "absent",
           confKind |-> "absent", conf |-> 0]}

\* json.loads of an object: the dict with the keys the object has
IntentDict(j) ==
    [x \in (IF j.type = "absent" THEN {} ELSE {"type"})
           \cup (IF j.language = "absent" THEN {} ELSE {"language"})
           \cup (IF j.confKind = "absent" THEN {} ELSE {"confidence"})
       |-> CASE x = "type" -> j.type
             [] x = "language" -> j.language
             [] x = "confidence" -> [k |-> j.confKind, n |-> j.conf]]

\* the shapes in which a model wraps (or fails to give) a JSON value
Wrappings(j) ==
    { <<JsonTok(j)>>,
      <<Tok("ws"), JsonTok(j), Tok("ws")>>,
      <<Tok("prose"), Tok("jsonfence"), Tok("ws"), JsonTok(j), Tok("ws"),
        Tok("fence"), Tok("prose")>>,
      <<Tok("fence"), Tok("ws"), JsonTok(j), Tok("ws"), Tok("fence")>> }
Malformed(j) ==
    { <<Tok("prose")>>,
      <<JsonTok(j), Tok("prose")>>,
      <<Tok("jsonfence"), Tok("prose"), Tok("fence")>>,
      <<Tok("prose"), Tok("fence"), JsonTok(j), Tok("prose"), Tok("fence")>>,
      <<Tok("fence"), Tok("fence"), JsonTok(j)>> }

ClassifierOutcomes ==
    {Failed("APIConnectionError")}
    \cup {Returned(t) : t \in UNION {Wrappings(j) : j \in IntentJson}}
    \cup {Returned(t) : t \in Malformed(CHOOSE j \in IntentJson :
                                           j.type = "code_generation" /\ j.conf = 100)}

ChatOutcomes == {Failed("APIConnectionError"), Returned(<<Tok("prose")>>)}

----------------------------------------------------------------------------
(* RouterAgent._detect_intent *)

\* a detection whose override also takes a confidence of exactly 0.6
DetectIntent_Inclusive(message, classify) ==
    LET fallback == [type |-> "general_chat"]
        tr == <<Ev("_detect_intent"), Ev("complete.classify")>>
    IN
    IF ~classify.ok THEN Res(fallback, tr)
    ELSE
    LET p == JsonLoads(JsonCandidate(classify.text)) IN
    IF ~p.ok THEN Res(fallback, tr)
    ELSE IF p.j.k # "dict" THEN Res(fallback, tr)
    ELSE
    LET intent == IntentDict(p.j)
        confidence == Get(intent, "confidence", [k |-> "num", n |-> 0])
    IN
    IF confidence.k # "num" THEN Res(fallback, tr)
    ELSE IF confidence.n <= ConfidenceThreshold
    THEN Res(Put(intent, "type", "general_chat"), tr)
    ELSE Res(intent, tr)

DetectIntent(message, classify) ==
    LET fallback == [type |-> "general_chat"]
        tr == <<Ev("_detect_intent"), Ev("complete.classify")>>
    IN
    IF ~classify.ok THEN Res(fallback, tr)
    ELSE
    LET p == JsonLoads(JsonCandidate(classify.text)) IN
    IF ~p.ok THEN Res(fallback, tr)                   \* json.loads raised
    ELSE IF p.j.k # "dict" THEN Res(fallback, tr)     \* no .get: AttributeError
    ELSE
    LET intent == IntentDict(p.j)
        confidence == Get(intent, "confidence", [k |-> "num", n |-> 0])
    IN
    IF confidence.k # "num" THEN Res(fallback, tr)    \* str < float: TypeError
    ELSE IF confidence.n < ConfidenceThreshold
    THEN Res(Put(intent, "type", "general_chat"), tr)
    ELSE Res(intent, tr)

(* RouterAgent._handle_general_chat *)

\* a chat handler that makes its call a second time when the first failed
HandleGeneralChat_Retry(message, chat) ==
    IF chat.ok
    THEN Res([status |-> "success", message |-> chat.text,
              user_message |-> message],
             <<Ev("_handle_general_chat"), Ev("complete.chat")>>)
    ELSE Res([status |-> "error",
              message |-> <<"Error processing message: ", chat.err>>],
             <<Ev("_handle_general_chat"), Ev("complete.chat"), Ev("complete.chat")>>)

HandleGeneralChat(message, chat) ==
    LET tr == <<Ev("_handle_general_chat"), Ev("complete.chat")>> IN
    IF chat.ok
    THEN Res([status |-> "success", message |-> chat.text,
              user_message |-> message], tr)
    ELSE Res([status |-> "error",
              message |-> <<"Error processing message: ", chat.err>>], tr)

----------------------------------------------------------------------------
(* FileSystemTools.save_code_to_file *)

UnsafeChars == {"<", ">", ":", "\"", "/", "\\", "|", "?", "*"}
WhitespaceChars == {" ", "\t", "\n"}
SanitizeMaxLen == 200

\* FileSystemTools._sanitize_filename
SanitizeFilename(filename) ==
    LET replaced == [i \in 1..Len(filename) |->
                        IF filename[i] \in UnsafeChars THEN "_" ELSE filename[i]]
        capped == IF Len(replaced) > SanitizeMaxLen
                  THEN SubSeq(replaced, 1, SanitizeMaxLen) ELSE replaced
    IN IF capped = <<>> \/ \A i \in DOMAIN capped : capped[i] \in WhitespaceChars
       THEN <<"f","i","l","e","_","%Y%m%d_%H%M%S">>
       ELSE capped

\* extensions.get(language.lower(), '.txt'), the language given in lower case
Extension(language) ==
    CASE language = "python" -> <<".","p","y">>
      [] language = "javascript" -> <<".","j","s">>
      [] language = "java" -> <<".","j","a","v","a">>
      [] language = "cpp" -> <<".","c","p","p">>
      [] language = "c" -> <<".","c">>
      [] language = "html" -> <<".","h","t","m","l">>
      [] language = "css" -> <<".","c","s","s">>
      [] language = "sql" -> <<".","s","q","l">>
      [] OTHER -> <<".","t","x","t">>

\* write: whether open(filepath, 'w') and f.write succeed
SaveCodeToFile(code, filename, language, write) ==
    LET safe == SanitizeFilename(filename)
        ext == Extension(language)
        name == IF EndsWith(safe, ext) THEN safe ELSE safe \o ext
    IN IF write.ok
       THEN [status |-> "success",
             filepath |-> [dir |-> "generated_code", name |-> name],
             message |-> <<"Code saved successfully to ", name>>]
       ELSE [status |-> "error", filepath |-> None,
             message |-> <<"Error saving code: ", write.err>>]

WriteOutcomes == {[ok |-> TRUE, err |-> ""], [ok |-> FALSE, err |-> "PermissionError"]}

----------------------------------------------------------------------------
(* CodeGenerationAgent *)

\* a generation response, line by line: a line starts with a fence marker
\* ("fence"), holds one further in ("inline"), is blank, or is plain text
Line(kind, n) == [kind |-> kind, n |-> n]

GenTexts ==
    { <<Line("text", 1), Line("text", 2)>>,
      <<Line("text", 1), Line("fence", 0), Line("text", 2), Line("blank", 0),
        Line("text", 3), Line("fence", 0), Line("text", 4)>>,
      <<Line("blank", 0), Line("fence", 0), Line("text", 1), Line("fence", 0),
        Line("text", 2), Line("fence", 0), Line("text", 3), Line("fence", 0)>>,
      <<Line("text", 1), Line("inline", 2)>>,
      <<Line("fence", 0), Line("text", 1), Line("text", 2)>>,
      <<Line("blank", 0), Line("text", 1), Line("blank", 0), Line("text", 2),
        Line("blank", 0)>> }

GenerateOutcomes == {Failed("APIConnectionError")} \cup {Returned(t) : t \in GenTexts}
ReviewOutcomes == {Failed("RateLimitError"), Returned(<<Tok("prose")>>)}

\* str.strip() of a multi-line response: blank lines off both ends
RECURSIVE LStripLines(_)
LStripLines(ls) ==
    IF ls # <<>> /\ Head(ls).kind = "blank" THEN LStripLines(Tail(ls)) ELSE ls
RECURSIVE RStripLines(_)
RStripLines(ls) ==
    IF ls # <<>> /\ ls[Len(ls)].kind = "blank"
    THEN RStripLines(SubSeq(ls, 1, Len(ls) - 1)) ELSE ls
StripLines(ls) == RStripLines(LStripLines(ls))

\* the scan of generate_code: toggle on each line that starts with a fence
\* marker, keep the lines met while inside
RECURSIVE ScanLines(_, _)
\* a scan that stops at the fence line closing the first block
RECURSIVE ScanLines_FirstBlock(_, _)
ScanLines_FirstBlock(ls, in_code_block) ==
    IF ls = <<>> THEN <<>>
    ELSE IF Head(ls).kind = "fence"
    THEN (IF in_code_block THEN <<>> ELSE ScanLines_FirstBlock(Tail(ls), TRUE))
    ELSE IF in_code_block THEN <<Head(ls)>> \o ScanLines_FirstBlock(Tail(ls), in_code_block)
    ELSE ScanLines_FirstBlock(Tail(ls), in_code_block)

ScanLines(ls, in_code_block) ==
    IF ls = <<>> THEN <<>>
    ELSE IF Head(ls).kind = "fence" THEN ScanLines(Tail(ls), ~in_code_block)
    ELSE IF in_code_block THEN <<Head(ls)>> \o ScanLines(Tail(ls), in_code_block)
    ELSE ScanLines(Tail(ls), in_code_block)

\* an extraction that does not strip the response
ExtractCode_NoStrip(text) ==
    IF \E i \in DOMAIN text : text[i].kind \in {"fence", "inline"}
    THEN ScanLines(text, FALSE)
    ELSE text

ExtractCode(text) ==
    LET generated_code == StripLines(text) IN
    IF \E i \in DOMAIN generated_code : generated_code[i].kind \in {"fence", "inline"}
    THEN ScanLines(generated_code, FALSE)
    ELSE generated_code

\* a review step that gives an empty review when its call fails
ReviewCode_Blank(review) ==
    IF review.ok THEN review.text ELSE <<>>

\* CodeGenerationAgent._review_code
ReviewCode(review) ==
    IF review.ok THEN review.text ELSE <<"Review unavailable: ", review.err>>

StopWords ==
    {<<"a">>,
     <<"a","n">>,
     <<"t","h","e">>,
     <<"t","o">>,
     <<"f","o","r">>,
     <<"o","f">>,
     <<"i","n">>,
     <<"o","n">>,
     <<"w","i","t","h">>,
     <<"w","r","i","t","e">>,
     <<"c","r","e","a","t","e">>,
     <<"m","a","k","e">>,
     <<"c","o","d","e">>}
FilenameWords == 4
FilenameMaxLen == 50

\* str.split(): the maximal runs of non-whitespace characters
RECURSIVE SplitWords(_, _)
SplitWords(s, word) ==
    IF s = <<>> THEN (IF word = <<>> THEN <<>> ELSE <<word>>)
    ELSE IF Head(s) \in WhitespaceChars
    THEN (IF word = <<>> THEN <<>> ELSE <<word>>) \o SplitWords(Tail(s), <<>>)
    ELSE SplitWords(Tail(s), Append(word, Head(s)))

\* str.isalnum()
IsAlnum(w) ==
    /\ w # <<>>
    /\ \A i \in DOMAIN w :
          w[i] \in Range(UpperChars) \cup Range(LowerChars) \cup Range(DigitChars)

RECURSIVE JoinWords(_)
JoinWords(ws) ==
    IF ws = <<>> THEN <<>>
    ELSE IF Len(ws) = 1 THEN ws[1]
    ELSE ws[1] \o <<"_">> \o JoinWords(Tail(ws))

\* a derivation that keeps the tokens that are not alphanumeric
GenerateFilename_KeepsAll(prompt) ==
    LET words == SplitWords(Lower(prompt), <<>>)
        meaningful_words == SelectSeq(words, LAMBDA w : w \notin StopWords)
        filename_parts ==
            IF meaningful_words = <<>>
            THEN << <<"g","e","n","e","r","a","t","e","d","_","c","o","d","e">> >>
            ELSE SubSeq(meaningful_words, 1,
                        IF Len(meaningful_words) < FilenameWords
                        THEN Len(meaningful_words) ELSE FilenameWords)
        filename == JoinWords(filename_parts)
    IN IF Len(filename) > FilenameMaxLen
       THEN SubSeq(filename, 1, FilenameMaxLen) ELSE filename

\* CodeGenerationAgent._generate_filename
GenerateFilename(prompt) ==
    LET words == SplitWords(Lower(prompt), <<>>)
        meaningful_words == SelectSeq(words, LAMBDA w : w \notin StopWords /\ IsAlnum(w))
        filename_parts ==
            IF meaningful_words = <<>>
            THEN << <<"g","e","n","e","r","a","t","e","d","_","c","o","d","e">> >>
            ELSE SubSeq(meaningful_words, 1,
                        IF Len(meaningful_words) < FilenameWords
                        THEN Len(meaningful_words) ELSE FilenameWords)
        filename == JoinWords(filename_parts)
    IN IF Len(filename) > FilenameMaxLen
       THEN SubSeq(filename, 1, FilenameMaxLen) ELSE filename

\* a generate_code whose try starts after the generation call: the failure
\* is met only once the review and the save were attempted
GenerateCode_LateFailure(user_prompt, language, w) ==
    LET generated_code == IF w.generate.ok THEN ExtractCode(w.generate.text) ELSE <<>>
        review_result == ReviewCode(w.review)
        filename == GenerateFilename(user_prompt)
        save_result == SaveCodeToFile(generated_code, filename, language, w.save_code)
        tr == <<Ev("generate_code"), Ev("complete.generate"), Ev("complete.review"),
                Ev("save_code_to_file")>>
    IN IF ~w.generate.ok
       THEN Res([status |-> "error", code |-> <<>>, review |-> <<>>, filepath |-> None,
                 message |-> <<"Error generating code: ", w.generate.err>>], tr)
       ELSE Res([status |-> "success", code |-> generated_code, review |-> review_result,
                 filepath |-> save_result.filepath, filename |-> filename,
                 language |-> language,
                 message |-> <<"Code generated, reviewed, and saved successfully">>], tr)

\* CodeGenerationAgent.generate_code; w holds the outcomes of the generation
\* call, the review call and the file write
GenerateCode(user_prompt, language, w) ==
    IF ~w.generate.ok
    THEN Res([status |-> "error", code |-> <<>>, review |-> <<>>, filepath |-> None,
              message |-> <<"Error generating code: ", w.generate.err>>],
             <<Ev("generate_code"), Ev("complete.generate")>>)
    ELSE
    LET generated_code == ExtractCode(w.generate.text)
        review_result == ReviewCode(w.review)
        filename == GenerateFilename(user_prompt)
        save_result == SaveCodeToFile(generated_code, filename, language, w.save_code)
    IN Res([status |-> "success", code |-> generated_code, review |-> review_result,
            filepath |-> save_result.filepath, filename |-> filename,
            language |-> language,
            message |-> <<"Code generated, reviewed, and saved successfully">>],
           <<Ev("generate_code"), Ev("complete.generate"), Ev("complete.review"),
             Ev("save_code_to_file")>>)

----------------------------------------------------------------------------
(* Paths *)

\* the index of the last c in s, 0 if there is none (str.rfind, 1-based)
RFind(s, c) ==
    IF \E i \in DOMAIN s : s[i] = c
    THEN CHOOSE i \in DOMAIN s : s[i] = c /\ \A h \in (i + 1)..Len(s) : s[h] # c
    ELSE 0

\* Path(p).name
PathName(path) == SubSeq(path, RFind(path, "/") + 1, Len(path))

\* Path(p).stem: the name without its last suffix
PathStem(path) ==
    LET name == PathName(path)
        i == RFind(name, ".")
    IN IF 1 < i /\ i < Len(name) THEN SubSeq(name, 1, i - 1) ELSE name

----------------------------------------------------------------------------
(* PDFExtractionAgent and the tools it uses *)

MaxPages == 2
MaxWords == 3

\* FileSystemTools.extract_pdf_text: what the two PDF libraries give, or the
\* failure of both
ExtractOutcomes ==
    {[ok |-> FALSE, page_count |-> 0, words |-> 0, err |-> "PdfReadError"]}
    \cup [ok : {TRUE}, page_count : 0..MaxPages, words : 0..MaxWords, err : {""}]

ExtractPdfText(pdf_path, extract) ==
    IF extract.ok
    THEN [status |-> "success", text |-> [i \in 1..extract.words |-> "word"],
          page_count |-> extract.page_count,
          word_count |-> extract.words,   \* len(full_text.split())
          message |-> <<"Extracted ", extract.words, " words from ",
                        extract.page_count, " pages">>]
    ELSE [status |-> "error", text |-> <<>>, page_count |-> 0, word_count |-> 0,
          message |-> <<"Error extracting PDF: ", extract.err>>]

\* FileSystemTools.save_text_to_file
SaveTextToFile(text, original_filename, write) ==
    LET txt_filename == PathStem(original_filename) \o <<".","t","x","t">> IN
    IF write.ok
    THEN [status |-> "success",
          filepath |-> [dir |-> "raw_text", name |-> txt_filename],
          message |-> <<"Text saved to ", txt_filename>>]
    ELSE [status |-> "error", filepath |-> None,
          message |-> <<"Error saving text: ", write.err>>]

SummaryOutcomes == {Failed("APITimeoutError"), Returned(<<Tok("prose")>>)}

\* a fallback sentence that gives the pages for the words
GenerateSummary_Swapped(text, page_count, word_count, summarize) ==
    IF summarize.ok
    THEN <<"Document Summary (", page_count, " pages, ", word_count, " words): ",
           summarize.text>>
    ELSE <<"Extracted ", page_count, " words from ", word_count, " pages.">>

\* PDFExtractionAgent._generate_summary
GenerateSummary(text, page_count, word_count, summarize) ==
    IF summarize.ok
    THEN <<"Document Summary (", page_count, " pages, ", word_count, " words): ",
           summarize.text>>
    ELSE <<"Extracted ", word_count, " words from ", page_count, " pages.">>

\* PDFExtractionAgent.process_pdf
ProcessPdf(pdf_path, w) ==
    LET extraction_result == ExtractPdfText(pdf_path, w.extract) IN
    IF extraction_result.status # "success"
    THEN Res(extraction_result, <<Ev("process_pdf"), Ev("extract_pdf_text")>>)
    ELSE
    LET text == extraction_result.text
        page_count == extraction_result.page_count
        word_count == extraction_result.word_count
        save_result == SaveTextToFile(text, PathName(pdf_path), w.save_text)
        summary == GenerateSummary(text, page_count, word_count, w.summarize)
    IN Res([status |-> "success", text |-> text, page_count |-> page_count,
            word_count |-> word_count, filepath |-> save_result.filepath,
            summary |-> summary,
            message |-> <<"Extracted ", word_count, " words from ", page_count,
                          " pages and saved to ", save_result.filepath>>],
           <<Ev("process_pdf"), Ev("extract_pdf_text"), Ev("save_text_to_file"),
             Ev("complete.summary")>>)

----------------------------------------------------------------------------
(* CSVAnalysisAgent.analyze_csv and the tools it uses *)

\* titles the code itself names
T_ViewStatistics ==
    <<"V","i","e","w"," ","S","t","a","t","i","s","t","i","c","s">>
T_CheckDataQuality ==
    <<"C","h","e","c","k"," ","D","a","t","a"," ","Q","u","a","l","i","t","y">>
T_ExportFilteredData ==
    <<"E","x","p","o","r","t"," ","F","i","l","t","e","r","e","d"," ","D","a","t","a">>
T_GenerateReport ==
    <<"G","e","n","e","r","a","t","e"," ","R","e","p","o","r","t">>
T_UnknownAction ==
    <<"U","n","k","n","o","w","n"," ","A","c","t","i","o","n">>

\* titles a model may give to its suggestions
T_CheckForMissingData ==
    <<"C","h","e","c","k"," ","f","o","r"," ","M","i","s","s","i","n","g"," ","D","a","t","a">>
T_SummaryReport ==
    <<"S","u","m","m","a","r","y"," ","R","e","p","o","r","t">>
T_ValidateAndExport ==
    <<"V","A","L","I","D","A","T","E"," ","a","n","d"," ","E","x","p","o","r","t">>
T_CreateFilter ==
    <<"C","r","e","a","t","e"," ","F","i","l","t","e","r">>
T_PlotTrends ==
    <<"P","l","o","t"," ","T","r","e","n","d","s">>

\* a suggestion: a dict with the keys in .keys
Suggestion(id, title, description) ==
    [keys |-> {"id", "title", "description"}, id |-> id, title |-> title,
     description |-> description]
Without(d, k) == [d EXCEPT !.keys = @ \ {k}]

FallbackSuggestions ==
    << Suggestion(1, T_ViewStatistics, "Get statistical summary of numeric columns"),
       Suggestion(2, T_CheckDataQuality, "Identify missing values and data issues"),
       Suggestion(3, T_ExportFilteredData, "Filter and export specific rows/columns"),
       Suggestion(4, T_GenerateReport, "Create a summary report of the data") >>

\* suggestion lists a model may return
ModelSuggestions4 ==
    << Suggestion(1, T_SummaryReport, "d1"),
       Suggestion(2, T_CheckForMissingData, "d2"),
       Suggestion(3, T_CreateFilter, "d3"),
       Suggestion(4, T_PlotTrends, "d4") >>
ModelSuggestions5 ==
    Append(ModelSuggestions4, Suggestion(5, T_ValidateAndExport, "d5"))
ModelSuggestionsFrom0 ==
    << Suggestion(0, T_CheckForMissingData, "d0"),
       Suggestion(1, T_PlotTrends, "d1"),
       Without(Suggestion(1, T_GenerateReport, "d1"), "description") >>

MaxRows == 6
MaxCols == 2
SampleHead == 5
SampleShown == 3

Min(a, b) == IF a < b THEN a ELSE b

\* FileSystemTools.analyze_csv_structure: what pandas reads, or its failure
ProfileOutcomes ==
    {[ok |-> FALSE, num_rows |-> 0, num_cols |-> 0, err |-> "EmptyDataError"]}
    \cup [ok : {TRUE}, num_rows : 0..MaxRows, num_cols : 1..MaxCols, err : {""}]

AnalyzeCsvStructure(csv_path, profile) ==
    IF profile.ok
    THEN [status |-> "success", num_rows |-> profile.num_rows,
          num_cols |-> profile.num_cols,
          columns |-> [c \in 1..profile.num_cols |-> <<"col", c>>],
          sample_data |-> [r \in 1..Min(profile.num_rows, SampleHead) |-> <<"row", r>>],
          message |-> <<"Analyzed CSV with ", profile.num_rows, " rows and ",
                        profile.num_cols, " columns">>]
    ELSE [status |-> "error", message |-> <<"Error analyzing CSV: ", profile.err>>]

\* the JSON values a suggestion response may hold
SuggestJson ==
    {[k |-> "dict", keys |-> {"content_summary", "suggestions"},
      content_summary |-> "summary", suggestions |-> sg] :
        sg \in {ModelSuggestions4, ModelSuggestions5, ModelSuggestionsFrom0}}
    \cup {[k |-> "dict", keys |-> ks, content_summary |-> "summary",
           suggestions |-> ModelSuggestions4] :
             ks \in {{"content_summary"}, {"suggestions"}, {}}}
    \cup {[k |-> kind, keys |-> {}, content_summary |-> "", suggestions |-> <<>>] :
             kind \in {"list", "str"}}

SuggestOutcomes ==
    {Failed("APIConnectionError")}
    \cup {Returned(t) : t \in UNION {Wrappings(j) : j \in SuggestJson}}
    \cup {Returned(t) : t \in Malformed(CHOOSE j \in SuggestJson :
                                           j.suggestions = ModelSuggestions5)}

\* a fallback whose summary gives the rows for the columns
GenerateSummaryAndSuggestions_Swapped(analysis, suggest) ==
    LET fallback ==
            [k |-> "dict", keys |-> {"content_summary", "suggestions"},
             content_summary |-> <<"A CSV file with ", analysis.num_rows,
                                   " columns and ", analysis.num_cols, " rows">>,
             suggestions |-> FallbackSuggestions]
    IN IF ~suggest.ok THEN fallback
       ELSE LET p == JsonLoads(JsonCandidate(suggest.text)) IN
            IF p.ok THEN p.j ELSE fallback

\* a fallback whose summary tells why the model output was not used
GenerateSummaryAndSuggestions_Reason(analysis, suggest) ==
    LET fallback(why) ==
            [k |-> "dict", keys |-> {"content_summary", "suggestions"},
             content_summary |-> <<"A CSV file with ", analysis.num_cols,
                                   " columns and ", analysis.num_rows, " rows", why>>,
             suggestions |-> FallbackSuggestions]
    IN IF ~suggest.ok THEN fallback(suggest.err)
       ELSE LET p == JsonLoads(JsonCandidate(suggest.text)) IN
            IF p.ok THEN p.j ELSE fallback("JSONDecodeError")

\* CSVAnalysisAgent._generate_summary_and_suggestions: the parsed value as it
\* is, or the fallback when the call or the parse raised
GenerateSummaryAndSuggestions(analysis, suggest) ==
    LET fallback ==
            [k |-> "dict", keys |-> {"content_summary", "suggestions"},
             content_summary |-> <<"A CSV file with ", analysis.num_cols,
                                   " columns and ", analysis.num_rows, " rows">>,
             suggestions |-> FallbackSuggestions]
    IN IF ~suggest.ok THEN fallback
       ELSE LET p == JsonLoads(JsonCandidate(suggest.text)) IN
            IF p.ok THEN p.j ELSE fallback

\* CSVAnalysisAgent.analyze_csv
AnalyzeCsv(csv_path, w) ==
    LET analysis == AnalyzeCsvStructure(csv_path, w.profile) IN
    IF analysis.status # "success"
    THEN Res(analysis, <<Ev("analyze_csv"), Ev("analyze_csv_structure")>>)
    ELSE
    LET summary_and_suggestions == GenerateSummaryAndSuggestions(analysis, w.suggest)
        tr == <<Ev("analyze_csv"), Ev("analyze_csv_structure"), Ev("complete.suggest")>>
        failure(e) == Res([status |-> "error",
                           message |-> <<"Error analyzing CSV: ", e>>], tr)
    IN
    IF summary_and_suggestions.k # "dict"
    THEN failure("TypeError")                       \* a list or str indexed by a key
    ELSE IF "content_summary" \notin summary_and_suggestions.keys
    THEN failure("KeyError: 'content_summary'")
    ELSE IF "suggestions" \notin summary_and_suggestions.keys
    THEN failure("KeyError: 'suggestions'")
    ELSE Res([status |-> "success", filename |-> PathName(csv_path),
              num_rows |-> analysis.num_rows, num_cols |-> analysis.num_cols,
              columns |-> analysis.columns,
              content_summary |-> summary_and_suggestions.content_summary,
              suggestions |-> summary_and_suggestions.suggestions,
              sample_data |-> SubSeq(analysis.sample_data, 1,
                                     Min(Len(analysis.sample_data), SampleShown)),
              message |-> <<"CSV analyzed successfully">>], tr)

----------------------------------------------------------------------------
(* RouterAgent *)

P_ReportPdf == <<"/","u","p","/","r","e","p","o","r","t",".","p","d","f">>
P_ScanPDF == <<"S","C","A","N",".","P","D","F">>
P_DataCsv == <<"/","u","p","/","d","a","t","a",".","c","s","v">>
P_SalesCSV == <<"S","a","l","e","s",".","C","S","V">>
P_NotesTxt == <<"n","o","t","e","s",".","t","x","t">>
P_Pdf == <<"p","d","f">>

\* process_message(..., uploaded_file): None, or a dict with the keys in .keys
Upload(type, path) == [keys |-> {"path", "type", "name"}, path |-> path, type |-> type]
Uploads ==
    {None}
    \cup {Upload("pdf", P_ReportPdf), Upload("other", P_ScanPDF),
          Upload("csv", P_DataCsv), Upload("other", P_SalesCSV),
          Upload("csv", P_ReportPdf), Upload("pdf", P_DataCsv),
          Upload("other", P_NotesTxt), Upload("PDF", P_NotesTxt),
          Upload("other", P_Pdf)}
    \cup {[Upload("pdf", P_ReportPdf) EXCEPT !.keys = ks] :
             ks \in {{}, {"path"}, {"type"}}}

\* the truth value of uploaded_file: None and the empty dict are false
Truthy(uploaded_file) == uploaded_file # None /\ uploaded_file.keys # {}

\* the outcomes of every collaborator a process_message call may consult
World0 ==
    [classify |-> Failed("APIConnectionError"), chat |-> Failed("APIConnectionError"),
     generate |-> Failed("APIConnectionError"), review |-> Failed("RateLimitError"),
     save_code |-> [ok |-> TRUE, err |-> ""],
     extract |-> [ok |-> FALSE, page_count |-> 0, words |-> 0, err |-> "PdfReadError"],
     save_text |-> [ok |-> TRUE, err |-> ""], summarize |-> Failed("APITimeoutError"),
     profile |-> [ok |-> FALSE, num_rows |-> 0, num_cols |-> 0, err |-> "EmptyDataError"],
     suggest |-> Failed("APIConnectionError")]

\* a test of the path that does not lower-case it
IsPdfUpload_CaseSensitive(file_type, file_path) ==
    file_type = "pdf" \/ EndsWith(file_path, <<".","p","d","f">>)

IsPdfUpload(file_type, file_path) ==
    file_type = "pdf" \/ EndsWith(Lower(file_path), <<".","p","d","f">>)
IsCsvUpload(file_type, file_path) ==
    file_type = "csv" \/ EndsWith(Lower(file_path), <<".","c","s","v">>)

\* RouterAgent._handle_file_upload
HandleFileUpload(message, uploaded_file, w) ==
    LET tr == <<Ev("_handle_file_upload")>> IN
    IF "path" \notin uploaded_file.keys THEN Res(Raise("KeyError: 'path'"), tr)
    ELSE IF "type" \notin uploaded_file.keys THEN Res(Raise("KeyError: 'type'"), tr)
    ELSE
    LET file_path == uploaded_file.path
        file_type == uploaded_file.type
    IN
    IF IsPdfUpload(file_type, file_path)
    THEN LET r == ProcessPdf(file_path, w) IN
         Res(Put(Put(r.out, "mode", "pdf_extraction"), "user_message", message),
             tr \o r.tr)
    ELSE IF IsCsvUpload(file_type, file_path)
    THEN LET r == AnalyzeCsv(file_path, w) IN
         Res(Put(Put(Put(r.out, "mode", "csv_analysis"), "user_message", message),
                 "file_path", file_path),
             tr \o r.tr)
    ELSE Res([status |-> "error",
              message |-> <<"Unsupported file type: ", file_type,
                            ". Please upload PDF or CSV files.">>,
              mode |-> "error"], tr)

\* RouterAgent._handle_text_message
HandleTextMessage(message, w) ==
    LET d == DetectIntent(message, w.classify)
        intent == d.out
        tr == <<Ev("_handle_text_message")>> \o d.tr
    IN
    IF "type" \notin DOMAIN intent THEN Res(Raise("KeyError: 'type'"), tr)
    ELSE IF intent.type = "code_generation"
    THEN LET r == GenerateCode(message, Get(intent, "language", "python"), w) IN
         Res(Put(Put(r.out, "mode", "code_generation"), "user_message", message),
             tr \o r.tr)
    ELSE LET r == HandleGeneralChat(message, w.chat) IN
         Res(Put(r.out, "mode", "general_chat"), tr \o r.tr)

\* process_message without its except clause: what the handler raises escapes
CatchAll_Reraise(r) == r

\* an except clause that builds the error envelope but leaves the mode out
CatchAll_NoMode(r) ==
    IF IsRaise(r.out)
    THEN Res([status |-> "error",
              message |-> <<"Error processing request: ", r.out.raise>>], r.tr)
    ELSE r

\* the except clause of process_message
CatchAll(r) ==
    IF IsRaise(r.out)
    THEN Res([status |-> "error",
              message |-> <<"Error processing request: ", r.out.raise>>,
              mode |-> "error"], r.tr)
    ELSE r

\* RouterAgent.process_message
RouterProcessMessage(message, uploaded_file, w) ==
    CatchAll(IF Truthy(uploaded_file)
             THEN HandleFileUpload(message, uploaded_file, w)
             ELSE HandleTextMessage(message, w))

\* the collaborator outcomes that a call with these arguments can meet: of
\* the pipeline the call enters, each outcome; of the others, none
Worlds(message, uploaded_file) ==
    IF Truthy(uploaded_file)
    THEN IF ~({"path", "type"} \subseteq uploaded_file.keys) THEN {World0}
         ELSE IF IsPdfUpload(uploaded_file.type, uploaded_file.path)
         THEN {[World0 EXCEPT !.extract = e, !.save_text = s, !.summarize = m] :
                  e \in ExtractOutcomes, s \in WriteOutcomes, m \in SummaryOutcomes}
         ELSE IF IsCsvUpload(uploaded_file.type, uploaded_file.path)
         THEN {[World0 EXCEPT !.profile = p, !.suggest = s] :
                  p \in ProfileOutcomes, s \in SuggestOutcomes}
         ELSE {World0}
    ELSE UNION {
           IF Get(DetectIntent(message, c).out, "type", "") = "code_generation"
           THEN {[World0 EXCEPT !.classify = c, !.generate = g, !.review = r,
                                !.save_code = s] :
                    g \in GenerateOutcomes, r \in ReviewOutcomes, s \in WriteOutcomes}
           ELSE {[World0 EXCEPT !.classify = c, !.chat = h] : h \in ChatOutcomes}
           : c \in ClassifierOutcomes }

----------------------------------------------------------------------------
(* CSVAnalysisAgent.execute_action and the four actions *)

StatisticsKeywords ==
    << <<"s","t","a","t","i","s","t","i","c">>,
       <<"s","u","m","m","a","r","y">>,
       <<"v","i","e","w">>,
       <<"c","a","l","c","u","l","a","t","e">> >>
QualityKeywords ==
    << <<"q","u","a","l","i","t","y">>,
       <<"c","h","e","c","k">>,
       <<"v","a","l","i","d","a","t","e">>,
       <<"m","i","s","s","i","n","g">> >>
FilterKeywords ==
    << <<"f","i","l","t","e","r">>,
       <<"e","x","p","o","r","t">>,
       <<"e","x","t","r","a","c","t">> >>
ReportKeywords ==
    << <<"r","e","p","o","r","t">>,
       <<"g","e","n","e","r","a","t","e">>,
       <<"c","r","e","a","t","e">> >>

\* 'k1' in s or 'k2' in s or ...
ContainsAny(keywords, s) == \E i \in DOMAIN keywords : Contains(keywords[i], s)

Ok == [ok |-> TRUE, err |-> ""]
Fails(e) == [ok |-> FALSE, err |-> e]

LogEv(op, args) == [op |-> op, args |-> args]

\* CSVActionLogger.get_log_file_path
LogFilePath == [dir |-> "logs", name |-> <<"csv_actions_", "%Y-%m-%d", ".log">>]

\* CSVAnalysisAgent._execute_statistics
ExecuteStatistics(csv_path, w) ==
    LET tr == <<Ev("_execute_statistics"), LogEv("log_info", "Calculating detailed statistics..."),
                Ev("calculate_detailed_statistics")>>
    IN IF ~w.stats.ok
       THEN Res([status |-> "error",
                 message |-> <<"Error calculating statistics: ", w.stats.err>>], tr)
       ELSE Res([status |-> "success", action |-> "Statistics Calculation",
                 summary |-> <<"**Statistics Summary:**", "statistics">>,
                 detailed_stats |-> "statistics",
                 output |-> <<"**Statistics Summary:**", "statistics">>,
                 message |-> <<"Statistics calculated successfully">>],
                Append(tr, LogEv("log_statistics", "statistics")))

\* CSVAnalysisAgent._execute_quality_check
ExecuteQualityCheck(csv_path, w) ==
    LET tr == <<Ev("_execute_quality_check"), LogEv("log_info", "Performing data quality check..."),
                Ev("check_data_quality")>>
    IN IF ~w.quality.ok
       THEN Res([status |-> "error",
                 message |-> <<"Error checking data quality: ", w.quality.err>>], tr)
       ELSE Res([status |-> "success", action |-> "Data Quality Check",
                 summary |-> <<"**Data Quality Report:**", "quality_report">>,
                 quality_report |-> "quality_report",
                 output |-> <<"**Data Quality Report:**", "quality_report">>,
                 message |-> <<"Data quality check completed successfully">>],
                Append(tr, LogEv("log_quality_check", "quality_report")))

\* a filter action whose except clause returns the error envelope and logs
\* nothing
ExecuteFilter_Unlogged(csv_path, w) ==
    LET tr == <<Ev("_execute_filter"), LogEv("log_info", "Preparing filtered data export..."),
                Ev("read_csv")>>
        filtered_path == [dir |-> "reports",
                          name |-> PathStem(csv_path) \o
                                   <<"_","s","a","m","p","l","e","_","1","0",".","c","s","v">>]
        failure(e, t) ==
            Res([status |-> "error", message |-> <<"Error filtering data: ", e>>], t)
    IN IF ~w.read_csv.ok THEN failure(w.read_csv.err, tr)
       ELSE IF ~w.to_csv.ok THEN failure(w.to_csv.err, Append(tr, Ev("to_csv")))
       ELSE Res([status |-> "success", action |-> "Data Filtering",
                 summary |-> <<"Data filtering prepared.", filtered_path.name>>,
                 output |-> <<"Data filtering prepared.", filtered_path.name>>,
                 files_created |-> <<filtered_path>>,
                 message |-> <<"Data filtering completed">>],
                tr \o <<Ev("to_csv"),
                        LogEv("log_info", <<"Exported sample to: ", filtered_path>>)>>)

\* CSVAnalysisAgent._execute_filter
ExecuteFilter(csv_path, w) ==
    LET tr == <<Ev("_execute_filter"), LogEv("log_info", "Preparing filtered data export..."),
                Ev("read_csv")>>
        filtered_path == [dir |-> "reports",
                          name |-> PathStem(csv_path) \o
                                   <<"_","s","a","m","p","l","e","_","1","0",".","c","s","v">>]
        failure(e, t) ==
            Res([status |-> "error", message |-> <<"Error filtering data: ", e>>],
                Append(t, LogEv("log_error", <<0, "Filtering failed: ", e>>)))
    IN IF ~w.read_csv.ok THEN failure(w.read_csv.err, tr)
       ELSE IF ~w.to_csv.ok THEN failure(w.to_csv.err, Append(tr, Ev("to_csv")))
       ELSE Res([status |-> "success", action |-> "Data Filtering",
                 summary |-> <<"Data filtering prepared.", filtered_path.name>>,
                 output |-> <<"Data filtering prepared.", filtered_path.name>>,
                 files_created |-> <<filtered_path>>,
                 message |-> <<"Data filtering completed">>],
                tr \o <<Ev("to_csv"),
                        LogEv("log_info", <<"Exported sample to: ", filtered_path>>)>>)

\* a report action that goes on to the quality check when the statistics
\* failed
ExecuteReport_GoesOn(csv_path, w) ==
    LET tr1 == <<Ev("_execute_report"), LogEv("log_info", "Generating comprehensive report..."),
                 Ev("calculate_detailed_statistics")>>
        tr2 == Append(tr1, Ev("check_data_quality"))
        tr3 == Append(tr2, Ev("generate_csv_report"))
        report_filename == PathStem(csv_path) \o <<"_","r","e","p","o","r","t","_","%Y%m%d_%H%M%S",
                                                     ".","h","t","m","l">>
        report_path == [dir |-> "reports", name |-> report_filename]
    IN IF ~w.quality.ok
       THEN Res([status |-> "error",
                 message |-> <<"Error checking data quality: ", w.quality.err>>], tr2)
       ELSE IF ~w.stats.ok
       THEN Res([status |-> "error",
                 message |-> <<"Error calculating statistics: ", w.stats.err>>], tr2)
       ELSE IF ~w.report.ok
       THEN Res([status |-> "error",
                 message |-> <<"Error generating report: ", w.report.err>>], tr3)
       ELSE Res([status |-> "success", action |-> "Report Generation",
                 summary |-> <<"Comprehensive report generated successfully!",
                               report_filename, report_path>>,
                 output |-> <<"Comprehensive report generated successfully!",
                              report_filename, report_path>>,
                 report_path |-> report_path,
                 files_created |-> <<report_path>>,
                 message |-> <<"Report generated successfully">>],
                Append(tr3, LogEv("log_info", <<"Report generated: ", report_filename>>)))

\* CSVAnalysisAgent._execute_report
ExecuteReport(csv_path, w) ==
    LET tr1 == <<Ev("_execute_report"), LogEv("log_info", "Generating comprehensive report..."),
                 Ev("calculate_detailed_statistics")>>
        tr2 == Append(tr1, Ev("check_data_quality"))
        tr3 == Append(tr2, Ev("generate_csv_report"))
        report_filename == PathStem(csv_path) \o <<"_","r","e","p","o","r","t","_","%Y%m%d_%H%M%S",
                                                     ".","h","t","m","l">>
        report_path == [dir |-> "reports", name |-> report_filename]
    IN IF ~w.stats.ok
       THEN Res([status |-> "error",
                 message |-> <<"Error calculating statistics: ", w.stats.err>>], tr1)
       ELSE IF ~w.quality.ok
       THEN Res([status |-> "error",
                 message |-> <<"Error checking data quality: ", w.quality.err>>], tr2)
       ELSE IF ~w.report.ok
       THEN Res([status |-> "error",
                 message |-> <<"Error generating report: ", w.report.err>>], tr3)
       ELSE Res([status |-> "success", action |-> "Report Generation",
                 summary |-> <<"Comprehensive report generated successfully!",
                               report_filename, report_path>>,
                 output |-> <<"Comprehensive report generated successfully!",
                              report_filename, report_path>>,
                 report_path |-> report_path,
                 files_created |-> <<report_path>>,
                 message |-> <<"Report generated successfully">>],
                Append(tr3, LogEv("log_info", <<"Report generated: ", report_filename>>)))

\* a dispatch that tries the title keywords before the id
Dispatch_KeywordsFirst(action_id, action_lower) ==
    IF ContainsAny(StatisticsKeywords, action_lower) THEN "statistics"
    ELSE IF ContainsAny(QualityKeywords, action_lower) THEN "quality_check"
    ELSE IF ContainsAny(FilterKeywords, action_lower) THEN "filter"
    ELSE IF ContainsAny(ReportKeywords, action_lower) THEN "report"
    ELSE IF action_id = 1 \/ action_id = 2 THEN "statistics"
    ELSE IF action_id = 3 THEN "quality_check"
    ELSE IF action_id = 4 THEN "filter"
    ELSE IF action_id >= 5 THEN "report"
    ELSE "statistics"

\* a dispatch whose keyword groups are tried Report first
Dispatch_ReportFirst(action_id, action_lower) ==
    IF action_id = 1 \/ action_id = 2 THEN "statistics"
    ELSE IF action_id = 3 THEN "quality_check"
    ELSE IF action_id = 4 THEN "filter"
    ELSE IF action_id >= 5 THEN "report"
    ELSE IF ContainsAny(ReportKeywords, action_lower) THEN "report"
    ELSE IF ContainsAny(FilterKeywords, action_lower) THEN "filter"
    ELSE IF ContainsAny(QualityKeywords, action_lower) THEN "quality_check"
    ELSE IF ContainsAny(StatisticsKeywords, action_lower) THEN "statistics"
    ELSE "statistics"

\* the action the dispatch of execute_action picks for an integer action_id
Dispatch(action_id, action_lower) ==
    IF action_id = 1 \/ action_id = 2 THEN "statistics"
    ELSE IF action_id = 3 THEN "quality_check"
    ELSE IF action_id = 4 THEN "filter"
    ELSE IF action_id >= 5 THEN "report"
    ELSE IF ContainsAny(StatisticsKeywords, action_lower) THEN "statistics"
    ELSE IF ContainsAny(QualityKeywords, action_lower) THEN "quality_check"
    ELSE IF ContainsAny(FilterKeywords, action_lower) THEN "filter"
    ELSE IF ContainsAny(ReportKeywords, action_lower) THEN "report"
    ELSE "statistics"

RunAction(action, csv_path, w) ==
    CASE action = "statistics" -> ExecuteStatistics(csv_path, w)
      [] action = "quality_check" -> ExecuteQualityCheck(csv_path, w)
      [] action = "filter" -> ExecuteFilter(csv_path, w)
      [] action = "report" -> ExecuteReport(csv_path, w)

\* suggestion.get('id') == action_id, for an action_id that may be an int,
\* a str or None and an id that is an int or, the key missing, None
IdMatches(suggestion, action_id) ==
    IF "id" \in suggestion.keys
    THEN action_id.k = "int" /\ suggestion.id = action_id.n
    ELSE action_id.k = "none"

\* the title of the first suggestion whose id is action_id
ActionName(suggestions, action_id) ==
    IF \E i \in DOMAIN suggestions : IdMatches(suggestions[i], action_id)
    THEN LET i == CHOOSE n \in DOMAIN suggestions :
                     /\ IdMatches(suggestions[n], action_id)
                     /\ \A h \in 1..(n - 1) : ~IdMatches(suggestions[h], action_id)
         IN IF "title" \in suggestions[i].keys
            THEN suggestions[i].title ELSE T_UnknownAction
    ELSE T_UnknownAction

\* CSVActionLogger.log_action_result
LogActionResult(action_id, result) ==
    LogEv("log_action_result",
          [action_id |-> action_id, status |-> result.status,
           detail |-> IF result.status = "success"
                      THEN Get(result, "summary", "N/A")
                      ELSE Get(result, "message", "Unknown error")])

\* CSVAnalysisAgent.execute_action
ExecuteAction(csv_path, action_id, analysis, w) ==
    LET failure(e, tr) ==
            Res([status |-> "error", message |-> <<"Error executing action: ", e>>,
                 traceback |-> "traceback"], tr)
        logged(e, tr) ==
            failure(e, Append(tr, LogEv("log_error",
                                        <<action_id, "Action execution failed: ", e>>)))
        tr0 == <<Ev("execute_action"), Ev("get_logger")>>
    IN
    IF ~w.logger.ok THEN failure(w.logger.err, tr0)
    ELSE IF analysis.k # "dict" THEN logged("AttributeError", tr0)
    ELSE
    LET suggestions == IF "suggestions" \in analysis.keys
                       THEN analysis.suggestions ELSE <<>>
        action_name == ActionName(suggestions, action_id)
        tr1 == Append(tr0, LogEv("log_action_start",
                                 [action_id |-> action_id, action_name |-> action_name,
                                  csv_file |-> csv_path]))
        action_lower == Lower(action_name)
    IN
    IF action_id.k # "int" THEN logged("TypeError", tr1)   \* action_id >= 5
    ELSE
    LET r == RunAction(Dispatch(action_id.n, action_lower), csv_path, w)
        result == r.out
    IN Res(Put(result, "log_file", LogFilePath),
           (tr1 \o r.tr) \o <<LogActionResult(action_id, result)>>)

\* RouterAgent.execute_csv_action
RouterExecuteCsvAction(csv_path, action_id, analysis, w) ==
    LET r == ExecuteAction(csv_path, action_id, analysis, w) IN
    IF IsRaise(r.out)
    THEN Res([status |-> "error",
              message |-> <<"Error executing action: ", r.out.raise>>,
              mode |-> "error"], r.tr)
    ELSE Res(Put(r.out, "mode", "csv_action"), r.tr)

----------------------------------------------------------------------------
(* Inputs of execute_csv_action *)

MaxActionId == 6
MaxNegId == 1

\* action_id: an int, or what a JSON request body may hold instead
ActionIds ==
    [k : {"int"}, n : (-MaxNegId)..MaxActionId]
    \cup {[k |-> "str", n |-> 3], [k |-> "none", n |-> 0]}

Analysis(suggestions) ==
    [k |-> "dict", keys |-> {"suggestions"}, suggestions |-> suggestions]

\* prior analyses: those analyze_csv returns, and others a client may send
Analyses ==
    {Analysis(sg) :
        sg \in {FallbackSuggestions, ModelSuggestions4, ModelSuggestions5,
                ModelSuggestionsFrom0,
                << Suggestion(0, T_ValidateAndExport, "d"),
                   Suggestion(-1, T_CreateFilter, "d") >>,
                << Suggestion(0, T_GenerateReport, "d"),
                   Suggestion(-1, T_SummaryReport, "d"),
                   Suggestion(0, T_ViewStatistics, "d") >>,
                << Suggestion(0, T_ExportFilteredData, "d"),
                   Suggestion(-1, T_PlotTrends, "d") >>,
                << Without(Suggestion(0, T_GenerateReport, "d"), "title"),
                   Without(Suggestion(1, T_CheckDataQuality, "d"), "id") >>}}
    \cup {[Analysis(FallbackSuggestions) EXCEPT !.keys = {}],
          [Analysis(<<>>) EXCEPT !.k = "list"]}

CsvPaths == {P_DataCsv}

ActionWorlds ==
    [logger : {Ok, Fails("PermissionError")},
     stats : {Ok, Fails("ParserError")},
     quality : {Ok, Fails("ParserError")},
     read_csv : {Ok, Fails("FileNotFoundError")},
     to_csv : {Ok, Fails("OSError")},
     report : {Ok, Fails("PermissionError")}]

----------------------------------------------------------------------------
(* The state machine: a router is made for each request, as the callers of
   RouterAgent do; one entry point is called on it and returns. *)

NoCall == [op |-> "none"]

\* no router made
RouterIdle ==
    /\ pc = "idle"
    /\ call = NoCall
    /\ world = None
    /\ env = None
    /\ trace = <<>>

\* no agent made outside a router
TwiceIdle ==
    /\ agent = None
    /\ file = None
    /\ envelopes = <<>>

\* no table read
QualityIdle ==
    /\ table = None
    /\ quality = None

\* no logger made
LoggerIdle ==
    /\ handlers = <<>>
    /\ logfiles = None
    /\ console = <<>>
    /\ today = 1
    /\ threads = None
    /\ results = {}

\* no chat session made
ViewIdle ==
    /\ session = FALSE
    /\ messages = <<>>
    /\ executions = <<>>
    /\ served = None

Init ==
    /\ RouterIdle
    /\ TwiceIdle
    /\ QualityIdle
    /\ LoggerIdle
    /\ ViewIdle

\* RouterAgent.__init__
NewRouter ==
    /\ pc \in {"idle", "returned"}
    /\ pc' = "ready"
    /\ call' = NoCall
    /\ world' = None
    /\ env' = None
    /\ trace' = <<>>
    /\ UNCHANGED notRouterVars

Returns(c, w, r) ==
    /\ pc' = "returned"
    /\ call' = c
    /\ world' = w
    /\ env' = r.out
    /\ trace' = r.tr
    /\ UNCHANGED notRouterVars

ProcessMessage ==
    /\ pc = "ready"
    /\ \E message \in Messages, uploaded_file \in Uploads :
          \E w \in Worlds(message, uploaded_file) :
             Returns([op |-> "process_message", message |-> message,
                      uploaded_file |-> uploaded_file],
                     w, RouterProcessMessage(message, uploaded_file, w))

ExecuteCsvAction ==
    /\ pc = "ready"
    /\ \E csv_path \in CsvPaths, action_id \in ActionIds, analysis \in Analyses :
          \E w \in ActionWorlds :
             Returns([op |-> "execute_csv_action", csv_path |-> csv_path,
                      action_id |-> action_id, analysis |-> analysis],
                     w, RouterExecuteCsvAction(csv_path, action_id, analysis, w))

\* file names and languages given to save_code_to_file
F_Snippet == <<"s","n","i","p","p","e","t">>
F_SnippetPy == <<"s","n","i","p","p","e","t",".","p","y">>
CodeFilenames == {F_Snippet, F_SnippetPy}
CodeLanguages == {"python", "javascript", "rust"}

\* FileSystemTools.save_code_to_file, called on the tools of the router
SaveCode ==
    /\ pc = "ready"
    /\ \E filename \in CodeFilenames, language \in CodeLanguages, write \in WriteOutcomes :
          Returns([op |-> "save_code_to_file", filename |-> filename,
                   language |-> language],
                  [World0 EXCEPT !.save_code = write],
                  Res(SaveCodeToFile(<<Line("text", 1)>>, filename, language, write),
                      <<Ev("save_code_to_file")>>))

Next == NewRouter \/ ProcessMessage \/ ExecuteCsvAction \/ SaveCode

Spec == Init /\ [][Next]_vars

----------------------------------------------------------------------------
(* A CSVAnalysisAgent asked about one file several times *)

MaxAnalyzeCalls == 2

\* what the summary call of one analyze_csv call may do
RepeatSuggestOutcomes ==
    { Failed("APIConnectionError"),
      Returned(<<Tok("prose")>>),
      Returned(<<JsonTok(CHOOSE j \in SuggestJson :
                            j.keys = {"content_summary", "suggestions"}
                            /\ j.suggestions = ModelSuggestions4)>>),
      Returned(<<JsonTok(CHOOSE j \in SuggestJson :
                            j.keys = {"content_summary", "suggestions"}
                            /\ j.suggestions = ModelSuggestions5)>>),
      Returned(<<JsonTok(CHOOSE j \in SuggestJson : j.k = "dict" /\ j.keys = {})>>) }

\* CSVAnalysisAgent.__init__
NewAgent == [client |-> "Groq", fs_tools |-> "fs_tools",
             model_id |-> "llama-3.3-70b-versatile"]

\* an agent is made; the file it will be asked about is on disk
InitTwice ==
    /\ RouterIdle
    /\ agent = NewAgent
    /\ file \in ProfileOutcomes
    /\ envelopes = <<>>
    /\ QualityIdle
    /\ LoggerIdle
    /\ ViewIdle

\* CSVAnalysisAgent.analyze_csv on the file: it reads the file and the
\* fields of the agent, and assigns none of them
AnalyzeCsvCall ==
    /\ Len(envelopes) < MaxAnalyzeCalls
    /\ \E suggest \in RepeatSuggestOutcomes :
          envelopes' = Append(envelopes,
                              AnalyzeCsv(P_DataCsv, [World0 EXCEPT !.profile = file,
                                                                   !.suggest = suggest]).out)
    /\ UNCHANGED <<agent, file>>
    /\ UNCHANGED notTwiceVars

NextTwice == AnalyzeCsvCall

SpecTwice == InitTwice /\ [][NextTwice]_vars

----------------------------------------------------------------------------
(* FileSystemTools.check_data_quality on a table *)

MaxTableRows == 3

\* a cell of a DataFrame: a number, or missing (NaN)
Cell(v) == [null |-> FALSE, v |-> v]
NaN == [null |-> TRUE, v |-> 0]

\* the columns of the tables, in file order
TableColumns == <<"a", "b">>

\* a DataFrame: its rows in file order, each row the cells in column order
Frame(rows) == [ok |-> TRUE, columns |-> TableColumns, rows |-> rows]

\* pd.read_csv raised
Unreadable == [ok |-> FALSE, err |-> "FileNotFoundError"]

\* ten rows, two missing values in column b, the last row equal to the first
TenRows ==
    Frame(<< <<Cell(1), Cell(1)>>, <<Cell(2), NaN>>,     <<Cell(3), NaN>>,
             <<Cell(4), Cell(1)>>, <<Cell(5), Cell(2)>>, <<Cell(6), Cell(1)>>,
             <<Cell(7), Cell(2)>>, <<Cell(8), Cell(1)>>, <<Cell(9), Cell(2)>>,
             <<Cell(1), Cell(1)>> >>)

\* five rows, the last one far from the others in column a
FarValue ==
    Frame(<< <<Cell(1), Cell(1)>>, <<Cell(1), Cell(2)>>, <<Cell(1), NaN>>,
             <<Cell(1), Cell(2)>>, <<Cell(9), Cell(1)>> >>)

Cells == {Cell(1), Cell(2), NaN}

RECURSIVE RowsUpTo(_)
RowsUpTo(n) ==
    IF n = 0 THEN {<<>>}
    ELSE LET shorter == RowsUpTo(n - 1) IN
         shorter \cup {Append(rows, <<x, y>>) :
                          rows \in {r \in shorter : Len(r) = n - 1}, x \in Cells, y \in Cells}

Tables == {Frame(rows) : rows \in RowsUpTo(MaxTableRows)} \cup {TenRows, FarValue, Unreadable}

RECURSIVE Gcd(_, _)
Gcd(a, b) ==
    IF b = 0 THEN a ELSE Gcd(b, a % b)

\* float((count / len(df)) * 100), kept as the fraction it stands for; the
\* quotient of zero by zero is nan
Percentage(count, rows) ==
    IF rows = 0 THEN [nan |-> TRUE, num |-> 0, den |-> 1]
    ELSE LET g == Gcd(count * 100, rows) IN
         [nan |-> FALSE, num |-> (count * 100) \div g, den |-> rows \div g]

\* the float x.0
Float(x) == [nan |-> FALSE, num |-> x, den |-> 1]

\* the rows of which a copy that pandas treats as a duplicate has index idx:
\* all of them, whichever copy comes first
RECURSIVE Duplicated_KeepNone(_, _)
Duplicated_KeepNone(rows, idx) ==
    IF idx > Len(rows) THEN 0
    ELSE (IF \E j \in DOMAIN rows : j # idx /\ rows[j] = rows[idx] THEN 1 ELSE 0)
         + Duplicated_KeepNone(rows, idx + 1)

\* df.duplicated().sum() from row idx on: a row is marked when an earlier row
\* has the same cells, missing cells counting as equal
RECURSIVE Duplicated(_, _)
Duplicated(rows, idx) ==
    IF idx > Len(rows) THEN 0
    ELSE (IF \E j \in 1..(idx - 1) : rows[j] = rows[idx] THEN 1 ELSE 0)
         + Duplicated(rows, idx + 1)

\* df[col].isnull().sum() from row idx on
RECURSIVE IsNullSum(_, _, _)
IsNullSum(rows, c, idx) ==
    IF idx > Len(rows) THEN 0
    ELSE (IF rows[idx][c].null THEN 1 ELSE 0) + IsNullSum(rows, c, idx + 1)

\* the loop over df.columns that fills missing_values, from column c on
RECURSIVE MissingValues(_, _, _)
MissingValues(df, c, acc) ==
    IF c > Len(df.columns) THEN acc
    ELSE LET missing_count == IsNullSum(df.rows, c, 1)
             col == df.columns[c]
         IN IF missing_count > 0
            THEN MissingValues(df, c + 1,
                    [k \in DOMAIN acc \cup {col} |->
                        IF k = col
                        THEN [count |-> missing_count,
                              percentage |-> Percentage(missing_count, Len(df.rows))]
                        ELSE acc[k]])
            ELSE MissingValues(df, c + 1, acc)

\* the values of a column that are not missing, in ascending order
RECURSIVE SortedValues(_)
SortedValues(vals) ==
    IF vals = <<>> THEN <<>>
    ELSE LET lo == CHOOSE i \in DOMAIN vals : \A j \in DOMAIN vals : vals[i] <= vals[j]
         IN <<vals[lo]>> \o SortedValues(SubSeq(vals, 1, lo - 1) \o SubSeq(vals, lo + 1, Len(vals)))

RECURSIVE ColumnValues(_, _, _)
ColumnValues(rows, c, idx) ==
    IF idx > Len(rows) THEN <<>>
    ELSE (IF rows[idx][c].null THEN <<>> ELSE <<rows[idx][c].v>>) \o ColumnValues(rows, c, idx + 1)

\* four times Series.quantile(k / 4) of the sorted values, by linear
\* interpolation between the two nearest ranks
Quantile4(sorted, k) ==
    LET h == k * (Len(sorted) - 1)
        i == (h \div 4) + 1
        r == h % 4
    IN IF r = 0 THEN 4 * sorted[i]
       ELSE 4 * sorted[i] + r * (sorted[i + 1] - sorted[i])

\* len(outliers) for one column: the values below Q1 - 1.5 * IQR or above
\* Q3 + 1.5 * IQR; every comparison with nan is false
OutlierCount(df, c) ==
    LET vals == ColumnValues(df.rows, c, 1)
        sorted == SortedValues(vals)
    IN IF vals = <<>> THEN 0
       ELSE LET Q1 == Quantile4(sorted, 1)
                Q3 == Quantile4(sorted, 3)
                IQR == Q3 - Q1
            IN Cardinality({i \in DOMAIN vals :
                               \/ 8 * vals[i] < 2 * Q1 - 3 * IQR
                               \/ 8 * vals[i] > 2 * Q3 + 3 * IQR})

\* str(df[col].dtype): a column read from an empty table is object, one of
\* numbers is int64, and float64 once a value is missing
Dtype(df, c) ==
    IF df.rows = <<>> THEN "object"
    ELSE IF IsNullSum(df.rows, c, 1) > 0 THEN "float64" ELSE "int64"

\* the loop over the numeric columns that fills outliers, from column c on
RECURSIVE Outliers(_, _, _)
Outliers(df, c, acc) ==
    IF c > Len(df.columns) THEN acc
    ELSE LET n == IF Dtype(df, c) = "object" THEN 0 ELSE OutlierCount(df, c)
             col == df.columns[c]
         IN IF n > 0
            THEN Outliers(df, c + 1,
                    [k \in DOMAIN acc \cup {col} |->
                        IF k = col
                        THEN [count |-> n, percentage |-> Percentage(n, Len(df.rows))]
                        ELSE acc[k]])
            ELSE Outliers(df, c + 1, acc)

\* FileSystemTools.check_data_quality
CheckDataQuality(df) ==
    IF ~df.ok
    THEN [status |-> "error", message |-> <<"Error checking data quality: ", df.err>>]
    ELSE [status |-> "success",
          quality_report |->
             [missing_values |-> MissingValues(df, 1, <<>>),
              duplicates |->
                 [total_duplicates |-> Duplicated(df.rows, 1),
                  duplicate_percentage |-> Percentage(Duplicated(df.rows, 1), Len(df.rows))],
              outliers |-> Outliers(df, 1, <<>>),
              data_types |-> [c \in {df.columns[i] : i \in DOMAIN df.columns} |->
                                 Dtype(df, CHOOSE i \in DOMAIN df.columns : df.columns[i] = c)]]]

\* a CSV file is on disk
InitQuality ==
    /\ RouterIdle
    /\ TwiceIdle
    /\ table \in Tables
    /\ quality = None
    /\ LoggerIdle
    /\ ViewIdle

\* check_data_quality is called on the file
CheckQuality ==
    /\ quality = None
    /\ quality' = CheckDataQuality(table)
    /\ UNCHANGED table
    /\ UNCHANGED notQualityVars

NextQuality == CheckQuality

SpecQuality == InitQuality /\ [][NextQuality]_vars

----------------------------------------------------------------------------
(* CSVActionLogger: requests of one process logging their actions *)

MaxDays == 2
MaxRequests == 2

\* the threads of the server that serve requests
Threads == {1, 2}

\* the base directories a FileSystemTools may be made with
BaseDirs == {"/app", "/srv"}

\* logs_dir / f"csv_actions_{date}.log"
DailyLogFile(base_dir, date) == <<base_dir, "/logs/csv_actions_", date, ".log">>

LogFilePaths == {DailyLogFile(b, d) : b \in BaseDirs, d \in 1..MaxDays}

\* logging.FileHandler(log_filepath): it keeps the file it opened
FileHandler(path) == [kind |-> "file", path |-> path]

\* logging.StreamHandler(sys.stdout)
StreamHandler == [kind |-> "console", path |-> <<>>]

\* a thread between two requests
Resting(req) == [pc |-> "idle", req |-> req, base_dir |-> "", current_log_file |-> <<>>]

\* the process has started; nothing has been logged
InitLogger ==
    /\ RouterIdle
    /\ TwiceIdle
    /\ QualityIdle
    /\ handlers = <<>>
    /\ logfiles = [p \in LogFilePaths |-> <<>>]
    /\ console = <<>>
    /\ today = 1
    /\ threads = [t \in Threads |-> Resting(0)]
    /\ results = {}
    /\ ViewIdle

\* Logger.callHandlers: the record goes once to every handler registered
RECURSIVE CallHandlers(_, _, _)
CallHandlers(hs, sink, rec) ==
    IF hs = <<>> THEN sink
    ELSE LET h == Head(hs) IN
         CallHandlers(Tail(hs),
                      IF h.kind = "file"
                      THEN [sink EXCEPT !.files[h.path] = Append(@, rec)]
                      ELSE [sink EXCEPT !.console = Append(@, rec)],
                      rec)

\* self.logger.info(...) by thread t
Emit(t, what) ==
    LET sink == CallHandlers(handlers, [files |-> logfiles, console |-> console],
                             [thread |-> t, req |-> threads[t].req, what |-> what])
    IN /\ logfiles' = sink.files
       /\ console' = sink.console

\* execute_action calls get_logger: CSVActionLogger.__init__ up to the
\* assignment of current_log_file
GetLogger(t) ==
    /\ threads[t].pc = "idle"
    /\ threads[t].req < MaxRequests
    /\ \E base_dir \in BaseDirs :
          threads' = [threads EXCEPT ![t] =
                         [pc |-> "check", req |-> threads[t].req + 1, base_dir |-> base_dir,
                          current_log_file |-> DailyLogFile(base_dir, today)]]
    /\ UNCHANGED <<handlers, logfiles, console, today, results>>
    /\ UNCHANGED notLoggerVars

\* if self.logger.handlers: return
CheckHandlers(t) ==
    /\ threads[t].pc = "check"
    /\ threads' = [threads EXCEPT ![t].pc = IF handlers # <<>> THEN "start" ELSE "add_file"]
    /\ UNCHANGED <<handlers, logfiles, console, today, results>>
    /\ UNCHANGED notLoggerVars

\* self.logger.addHandler(file_handler), the handler being on log_filepath
AddFileHandler(t) ==
    /\ threads[t].pc = "add_file"
    /\ handlers' = Append(handlers, FileHandler(threads[t].current_log_file))
    /\ threads' = [threads EXCEPT ![t].pc = "add_console"]
    /\ UNCHANGED <<logfiles, console, today, results>>
    /\ UNCHANGED notLoggerVars

\* self.logger.addHandler(console_handler)
AddConsoleHandler(t) ==
    /\ threads[t].pc = "add_console"
    /\ handlers' = Append(handlers, StreamHandler)
    /\ threads' = [threads EXCEPT ![t].pc = "start"]
    /\ UNCHANGED <<logfiles, console, today, results>>
    /\ UNCHANGED notLoggerVars

\* logger.log_action_start
LoggerActionStart(t) ==
    /\ threads[t].pc = "start"
    /\ Emit(t, "start")
    /\ threads' = [threads EXCEPT ![t].pc = "result"]
    /\ UNCHANGED <<handlers, today, results>>
    /\ UNCHANGED notLoggerVars

\* logger.log_action_result, then result['log_file'] = logger.get_log_file_path()
LoggerActionResult(t) ==
    /\ threads[t].pc = "result"
    /\ Emit(t, "result")
    /\ results' = results \cup {[thread |-> t, req |-> threads[t].req,
                                 log_file |-> threads[t].current_log_file]}
    /\ threads' = [threads EXCEPT ![t] = Resting(threads[t].req)]
    /\ UNCHANGED <<handlers, today>>
    /\ UNCHANGED notLoggerVars

\* the calendar date changes
Midnight ==
    /\ today < MaxDays
    /\ today' = today + 1
    /\ UNCHANGED <<handlers, logfiles, console, threads, results>>
    /\ UNCHANGED notLoggerVars

NextLogger ==
    \/ \E t \in Threads :
          \/ GetLogger(t)
          \/ CheckHandlers(t)
          \/ AddFileHandler(t)
          \/ AddConsoleHandler(t)
          \/ LoggerActionStart(t)
          \/ LoggerActionResult(t)
    \/ Midnight

SpecLogger == InitLogger /\ [][NextLogger]_vars

----------------------------------------------------------------------------
(* chatbot.views: the HTTP endpoints that call the router and store what it
   returns *)

\* names of uploaded files
N_Pdf == <<"p","d","f">>
N_ScanPDF == <<"S","C","A","N",".","P","D","F">>
N_SalesCsv == <<"s","a","l","e","s",".","c","s","v">>
N_NotesTxt == <<"n","o","t","e","s",".","t","x","t">>

NoFile == [present |-> FALSE, name |-> <<>>]
File(name) == [present |-> TRUE, name |-> name]

\* s.split('.')[-1]: the text after the last dot, or all of it
RECURSIVE LastDotPart(_)
LastDotPart(s) ==
    IF \E i \in DOMAIN s : s[i] = "."
    THEN LastDotPart(SubSeq(s, (CHOOSE i \in DOMAIN s :
                                   s[i] = "." /\ \A j \in 1..(i - 1) : s[j] # ".") + 1,
                            Len(s)))
    ELSE s

\* file_record.file.path: where the storage put the upload
MediaPath(name) == <<"/","m","e","d","i","a","/">> \o name

\* views._handle_file_upload: the file info given to the router
ViewHandleFileUpload(uploaded_file) ==
    LET file_ext == LastDotPart(Lower(uploaded_file.name))
        file_type == IF file_ext = <<"p","d","f">> THEN "pdf"
                     ELSE IF file_ext = <<"c","s","v">> THEN "csv" ELSE "other"
    IN Upload(file_type, MediaPath(uploaded_file.name))

\* a suggestions list that holds titles only, as strings
TitleOnly(title) == [k |-> "str", text |-> title]
ModelSuggestionTitles ==
    <<TitleOnly(T_SummaryReport), TitleOnly(T_PlotTrends),
      TitleOnly(T_CreateFilter), TitleOnly(T_ValidateAndExport)>>

\* the collaborator outcomes a send_message request may meet
ViewWorlds(message, uploaded_file_info) ==
    IF ~Truthy(uploaded_file_info)
    THEN {w \in Worlds(message, uploaded_file_info) :
             \/ ~w.classify.ok
             \/ \E j \in IntentJson :
                   /\ j.confKind = "num" /\ j.conf = 100
                   /\ j.language = "python"
                   /\ w.classify = Returned(<<JsonTok(j)>>)}
    ELSE Worlds(message, uploaded_file_info)
         \cup IF IsCsvUpload(uploaded_file_info.type, uploaded_file_info.path)
              THEN {[World0 EXCEPT
                        !.profile = [ok |-> TRUE, num_rows |-> 3, num_cols |-> 2, err |-> ""],
                        !.suggest = Returned(<<JsonTok(
                            [k |-> "dict", keys |-> {"content_summary", "suggestions"},
                             content_summary |-> "summary",
                             suggestions |-> ModelSuggestionTitles])>>)]}
              ELSE {}

\* the database write of a request that fails, if one does
DbFaults == {"none", "user_message", "uploaded_file", "assistant_message",
             "agent_execution", "session_save"}

\* RouterAgent(api_key, base_dir): the clients are made, or making one raises
ConstructOutcomes == {Ok, Fails("GroqError")}

\* a ChatMessage row
ChatMessageRow(role, content, mode, metadata) ==
    [role |-> role, content |-> content, mode |-> mode, metadata |-> metadata]

EmptyDict == [x \in {} |-> 0]

\* views._format_code_generation_response
FormatCodeGenerationResponse(result) ==
    IF Get(result, "status", "") # "success"
    THEN <<"Error: ", Get(result, "message", "Unknown error")>>
    ELSE <<"I've generated the code and saved it to ", Get(result, "filename", "file"),
           ". Generated Code: ", Get(result, "language", "python"),
           Get(result, "code", ""), " Code Review: ",
           Get(result, "review", "No review available"),
           " File Location: ", Get(result, "filepath", "N/A")>>

\* views._format_pdf_response
FormatPdfResponse(result) ==
    IF Get(result, "status", "") # "success"
    THEN <<"Error: ", Get(result, "message", "Unknown error")>>
    ELSE <<"PDF extracted successfully! Summary: ",
           Get(result, "summary", "Extraction complete"),
           " Pages: ", Get(result, "page_count", 0),
           " Words: ", Get(result, "word_count", 0),
           " Saved to: ", Get(result, "filepath", "N/A")>>

\* the lines _format_csv_response adds for the suggestions
RECURSIVE SuggestionLines(_)
SuggestionLines(suggestions) ==
    IF suggestions = <<>> THEN <<>>
    ELSE LET suggestion == Head(suggestions)
             get(key) == IF key \in suggestion.keys THEN suggestion[key] ELSE None
         IN <<get("id"), ". **", get("title"), "**: ", get("description")>>
            \o SuggestionLines(Tail(suggestions))

\* the loop of _format_csv_response calls .get on an element of suggestions
\* that is no dict
NoDictSuggestion(result) ==
    /\ Get(result, "status", "") = "success"
    /\ LET suggestions == Get(result, "suggestions", <<>>) IN
       \E i \in DOMAIN suggestions : "k" \in DOMAIN suggestions[i]

\* views._format_csv_response, where it does not raise
FormatCsvResponse(result) ==
    IF Get(result, "status", "") # "success"
    THEN <<"Error: ", Get(result, "message", "Unknown error")>>
    ELSE <<"CSV Analysis Complete! File: ", Get(result, "filename", "Unknown"),
           " Content Summary: ", Get(result, "content_summary", "N/A"),
           " Rows: ", Get(result, "num_rows", 0),
           " Columns: ", Get(result, "num_cols", 0),
           " Suggestions for working with this data:">>
         \o SuggestionLines(Get(result, "suggestions", <<>>))

\* views._create_assistant_message: the row it stores, or what it raises
CreateAssistantMessage(result, db) ==
    LET mode == Get(result, "mode", "general_chat") IN
    IF mode = "csv_analysis" /\ NoDictSuggestion(result)
    THEN Raise("AttributeError: 'str' object has no attribute 'get'")
    ELSE IF db = "assistant_message" THEN Raise("OperationalError")
    ELSE LET content ==
                CASE mode = "code_generation" -> FormatCodeGenerationResponse(result)
                  [] mode = "pdf_extraction" -> FormatPdfResponse(result)
                  [] mode = "csv_analysis" -> FormatCsvResponse(result)
                  [] mode = "csv_action" -> Get(result, "message", "Action completed")
                  [] OTHER -> Get(result, "message", "Response generated")
         IN ChatMessageRow("assistant", content, mode, result)

\* what a view did: the steps it took, the rows it stored, its response
Did(events, rows, runs, code) ==
    [events |-> events, rows |-> rows, runs |-> runs, code |-> code]

\* request.data of send_message: whether the serializer accepts it (a known
\* session id and a message), the message and the file
SendMessageRequests ==
    [view : {"send_message"}, valid : BOOLEAN, message : {M_Hello},
     file : {NoFile, File(N_Pdf), File(N_ScanPDF), File(N_SalesCsv), File(N_NotesTxt)}]

\* views.send_message
SendMessage(request, w, construct, db) ==
    IF ~request.valid THEN Did(<<>>, <<>>, <<>>, 400)
    ELSE IF db = "user_message" THEN Did(<<>>, <<>>, <<>>, 500)
    ELSE
    LET user_msg == ChatMessageRow("user", request.message, "general_chat", EmptyDict)
        ev1 == <<Ev("user_message")>>
    IN
    IF request.file.present /\ db = "uploaded_file" THEN Did(ev1, <<user_msg>>, <<>>, 500)
    ELSE
    LET uploaded_file_info == IF request.file.present
                              THEN ViewHandleFileUpload(request.file) ELSE None
        ev2 == ev1 \o (IF request.file.present THEN <<Ev("uploaded_file")>> ELSE <<>>)
        \* except Exception as e: the error message is stored
        failed(events, rows, runs, e) ==
            Did(Append(events, Ev("error_message")),
                Append(rows, ChatMessageRow("assistant", <<"I encountered an error: ", e>>,
                                            "error", [error |-> e])),
                runs, 500)
    IN
    IF ~construct.ok THEN failed(Append(ev2, Ev("RouterAgent")), <<user_msg>>, <<>>, construct.err)
    ELSE
    LET result == RouterProcessMessage(request.message, uploaded_file_info, w).out
        ev3 == ev2 \o <<Ev("RouterAgent"), LogEv("process_message", result)>>
        assistant_msg == CreateAssistantMessage(result, db)
    IN
    IF IsRaise(assistant_msg) THEN failed(ev3, <<user_msg>>, <<>>, assistant_msg.raise)
    ELSE
    LET ev4 == Append(ev3, Ev("assistant_message"))
        rows == <<user_msg, assistant_msg>>
    IN
    IF db = "agent_execution" THEN failed(ev4, rows, <<>>, "OperationalError")
    ELSE
    LET runs == <<[agent_type |-> "router", output_data |-> result,
                   success |-> Get(result, "status", "") = "success"]>>
        ev5 == Append(ev4, Ev("agent_execution"))
    IN
    IF db = "session_save" THEN failed(ev5, rows, runs, "OperationalError")
    ELSE Did(Append(ev5, Ev("session_save")), rows, runs, 200)

\* request.data of execute_csv_action: session_id is absent, names no
\* session, or names the session; csv_path is absent or given
ViewActionIds == ActionIds \cup {[k |-> "str", n |-> 0]}
ExecuteCsvActionRequests ==
    [view : {"execute_csv_action"}, session_id : {"absent", "unknown", "known"},
     action_id : ViewActionIds, csv_path : {<<>>, P_DataCsv},
     analysis : {Analysis(FallbackSuggestions),
                 Analysis(<< Suggestion(0, T_GenerateReport, "d") >>),
                 [Analysis(<<>>) EXCEPT !.keys = {}]}]

\* a test of the action_id that asks only that it is given
ActionIdGiven_NotNone(action_id) ==
    action_id.k # "none"

\* the truth value of the action_id of a request body: 0 and None are false
ActionIdGiven(action_id) ==
    CASE action_id.k = "int" -> action_id.n # 0
      [] action_id.k = "str" -> TRUE
      [] action_id.k = "none" -> FALSE

\* views.execute_csv_action
ViewExecuteCsvAction(request, w, construct, db) ==
    IF ~(request.session_id # "absent" /\ ActionIdGiven(request.action_id)
         /\ request.csv_path # <<>>)
    THEN Did(<<>>, <<>>, <<>>, 400)
    ELSE IF request.session_id = "unknown" THEN Did(<<>>, <<>>, <<>>, 404)
    ELSE IF ~construct.ok THEN Did(<<Ev("RouterAgent")>>, <<>>, <<>>, 500)
    ELSE
    LET r == RouterExecuteCsvAction(request.csv_path, request.action_id,
                                    request.analysis, w)
        events == <<Ev("RouterAgent"),
                    [op |-> "execute_csv_action", action_id |-> request.action_id,
                     called |-> Ops(r.tr)]>>
        assistant_msg == CreateAssistantMessage(r.out, db)
    IN IF IsRaise(assistant_msg) THEN Did(events, <<>>, <<>>, 500)
       ELSE Did(Append(events, Ev("assistant_message")), <<assistant_msg>>, <<>>, 200)

\* the process serves requests; no session yet
InitView ==
    /\ RouterIdle
    /\ TwiceIdle
    /\ QualityIdle
    /\ LoggerIdle
    /\ ViewIdle

\* views.create_session: a new session, without messages
CreateSession ==
    /\ session' = TRUE
    /\ messages' = <<>>
    /\ executions' = <<>>
    /\ served' = None
    /\ UNCHANGED notViewVars

\* a request is answered in the session
Serves(request, did) ==
    /\ session
    /\ served = None
    /\ served' = [request |-> request, events |-> did.events, code |-> did.code]
    /\ messages' = messages \o did.rows
    /\ executions' = executions \o did.runs
    /\ UNCHANGED session
    /\ UNCHANGED notViewVars

SendMessageView ==
    \E request \in SendMessageRequests, construct \in ConstructOutcomes, db \in DbFaults :
       \E w \in ViewWorlds(request.message,
                           IF request.file.present
                           THEN ViewHandleFileUpload(request.file) ELSE None) :
          Serves(request, SendMessage(request, w, construct, db))

ExecuteCsvActionView ==
    \E request \in ExecuteCsvActionRequests, construct \in ConstructOutcomes,
       db \in {"none", "assistant_message"}, w \in ActionWorlds :
          Serves(request, ViewExecuteCsvAction(request, w, construct, db))

NextView == CreateSession \/ SendMessageView \/ ExecuteCsvActionView

SpecView == InitView /\ [][NextView]_vars

----------------------------------------------------------------------------
(* Properties *)

ReturnedFrom(op) == pc = "returned" /\ call.op = op

\* the handlers and pipelines entered during the call, in order
Entered(names) == SelectSeq([i \in DOMAIN trace |-> trace[i].op], LAMBDA o : o \in names)

\* the value json.loads gave for the classifier response of the call
Classified == JsonLoads(JsonCandidate(world.classify.text))

\* what the handler under the try of process_message returned or raised
UnderTry ==
    IF Truthy(call.uploaded_file)
    THEN HandleFileUpload(call.message, call.uploaded_file, world)
    ELSE HandleTextMessage(call.message, world)

\* C1: process_message and execute_csv_action raise nothing: whatever the
\* message, the upload, the action id, the prior analysis and the outcomes
\* of the collaborators, the call returns an envelope whose status is
\* 'success' or 'error'.
C1_StatusSuccessOrError ==
    pc = "returned" =>
        /\ ~IsRaise(env)
        /\ "status" \in DOMAIN env
        /\ env.status \in {"success", "error"}

\* an exception met the except clause of process_message and came back as an
\* error envelope
C1_Witness ==
    /\ ReturnedFrom("process_message")
    /\ IsRaise(UnderTry.out)
    /\ env.status = "error"

\* C2: every envelope carries a mode: of process_message one of
\* pdf_extraction, csv_analysis, code_generation, general_chat, error; of
\* execute_csv_action csv_action or error; and an exception that reaches the
\* except clause of process_message gives status 'error' with mode 'error'.
C2_ModeTagged ==
    /\ ReturnedFrom("process_message") =>
          /\ "mode" \in DOMAIN env
          /\ env.mode \in {"pdf_extraction", "csv_analysis", "code_generation",
                           "general_chat", "error"}
          /\ IsRaise(UnderTry.out) => env.status = "error" /\ env.mode = "error"
    /\ ReturnedFrom("execute_csv_action") =>
          /\ "mode" \in DOMAIN env
          /\ env.mode \in {"csv_action", "error"}

C2_Witness ==
    /\ ReturnedFrom("process_message")
    /\ IsRaise(UnderTry.out)
    /\ env.mode = "error"
    /\ call.uploaded_file = None

\* C3: every envelope process_message returns carries user_message, equal to
\* the message argument.
C3_UserMessageEchoed ==
    ReturnedFrom("process_message") =>
        /\ "user_message" \in DOMAIN env
        /\ env.user_message = call.message

ActionHandlers ==
    {"_execute_statistics", "_execute_quality_check", "_execute_filter",
     "_execute_report"}

\* the call got its logger and its prior analysis is a dict, as declared
Dispatched ==
    /\ ReturnedFrom("execute_csv_action")
    /\ world.logger.ok
    /\ call.analysis.k = "dict"
    /\ call.action_id.k = "int"

C5_ByKeyword(title) ==
    LET t == Lower(title)
        has(words) == \E i \in DOMAIN words : Contains(words[i], t)
    IN IF has(StatisticsKeywords) THEN "_execute_statistics"
       ELSE IF has(QualityKeywords) THEN "_execute_quality_check"
       ELSE IF has(FilterKeywords) THEN "_execute_filter"
       ELSE IF has(ReportKeywords) THEN "_execute_report"
       ELSE "_execute_statistics"

\* the suggestions of the prior analysis whose id is n and which have a title
C5_WithId(n) ==
    LET sg == IF "suggestions" \in call.analysis.keys
              THEN call.analysis.suggestions ELSE <<>>
    IN SelectSeq(sg, LAMBDA x : "id" \in x.keys /\ x.id = n)

TextOnly == ReturnedFrom("process_message") /\ call.uploaded_file = None

\* the classifier call returned text that json.loads turned into an object
ClassifiedObject ==
    /\ world.classify.ok
    /\ Classified.ok
    /\ Classified.j.k = "dict"

\* C6: when the classifier response parses to an object whose confidence is
\* absent or below 0.6 (60 hundredths), the type is forced to general_chat
\* whatever it was: code generation is not invoked and general chat answers;
\* with type code_generation and confidence 0.6 or more the call goes to
\* code generation.
C6_LowConfidenceOverride ==
    (TextOnly /\ ClassifiedObject) =>
        /\ (\/ Classified.j.confKind = "absent"
            \/ Classified.j.confKind = "num" /\ Classified.j.conf < 60)
              => /\ "generate_code" \notin Ops(trace)
                 /\ "_handle_general_chat" \in Ops(trace)
                 /\ env.mode = "general_chat"
        /\ (/\ Classified.j.type = "code_generation"
            /\ Classified.j.confKind = "num"
            /\ Classified.j.conf >= 60)
              => /\ "generate_code" \in Ops(trace)
                 /\ env.mode = "code_generation"

\* type code_generation with confidence 0.4 was answered by general chat
C6_Witness ==
    /\ TextOnly
    /\ ClassifiedObject
    /\ Classified.j.type = "code_generation"
    /\ Classified.j.confKind = "num"
    /\ Classified.j.conf = 40
    /\ env.mode = "general_chat"
    /\ "generate_code" \notin Ops(trace)

\* the type _detect_intent gave for the call, "absent" when it gave none
IntentType ==
    LET intent == DetectIntent(call.message, world.classify).out
    IN IF "type" \in DOMAIN intent THEN intent.type ELSE "absent"

\* C7: a text-only message is handled by exactly one handler: code
\* generation when the detected type is code_generation, with mode
\* code_generation; general chat in every other case (failed call,
\* unparsable response, type missing or unknown), with mode general_chat.
C7_OneTextHandler ==
    TextOnly =>
        IF IntentType = "code_generation"
        THEN /\ Count(trace, "generate_code") = 1
             /\ Count(trace, "_handle_general_chat") = 0
             /\ env.mode = "code_generation"
        ELSE /\ Count(trace, "_handle_general_chat") = 1
             /\ Count(trace, "generate_code") = 0
             /\ env.mode = "general_chat"

\* the pipeline the declared type and the path of an upload select
C8_Route(u) ==
    IF u.type = "pdf" \/ u.path \in {P_ReportPdf, P_ScanPDF} THEN "process_pdf"
    ELSE IF u.type = "csv" \/ u.path \in {P_DataCsv, P_SalesCSV} THEN "analyze_csv"
    ELSE "unsupported"

Pipelines == {"process_pdf", "analyze_csv", "generate_code", "_handle_general_chat"}

CompletionCalls ==
    {"complete.classify", "complete.chat", "complete.generate", "complete.review",
     "complete.summary", "complete.suggest"}

\* C8: with an uploaded_file (a non-empty descriptor) process_message never
\* classifies the message.  A descriptor with path and type goes to the PDF
\* pipeline if the type is 'pdf' or the path ends in .pdf, else to the CSV
\* pipeline if the type is 'csv' or the path ends in .csv, else the call
\* returns at once an error envelope with mode 'error' whose message names
\* the type, no pipeline and no completion call made.  A descriptor without
\* path or type gives an error envelope with mode 'error', no pipeline run.
C8_UploadRouting ==
    (/\ ReturnedFrom("process_message")
     /\ call.uploaded_file # None
     /\ call.uploaded_file.keys # {}) =>
        /\ Ops(trace) \cap {"_detect_intent", "complete.classify"} = {}
        /\ IF {"path", "type"} \subseteq call.uploaded_file.keys
           THEN CASE C8_Route(call.uploaded_file) = "process_pdf" ->
                       /\ Entered(Pipelines) = <<"process_pdf">>
                       /\ env.mode = "pdf_extraction"
                  [] C8_Route(call.uploaded_file) = "analyze_csv" ->
                       /\ Entered(Pipelines) = <<"analyze_csv">>
                       /\ env.mode = "csv_analysis"
                  [] OTHER ->
                       /\ env.status = "error"
                       /\ env.mode = "error"
                       /\ \E i \in DOMAIN env.message :
                              env.message[i] = call.uploaded_file.type
                       /\ Ops(trace) \cap (Pipelines \cup CompletionCalls) = {}
           ELSE /\ env.status = "error"
                /\ env.mode = "error"
                /\ Ops(trace) \cap (Pipelines \cup CompletionCalls) = {}

\* SCAN.PDF declared as 'other' went to the PDF pipeline
C8_Witness ==
    /\ ReturnedFrom("process_message")
    /\ call.uploaded_file # None
    /\ call.uploaded_file.keys = {"path", "type", "name"}
    /\ call.uploaded_file.type = "other"
    /\ call.uploaded_file.path = P_ScanPDF
    /\ env.mode = "pdf_extraction"

\* the call went into analyze_csv and the profiling of the file succeeded
Profiled ==
    /\ ReturnedFrom("process_message")
    /\ "analyze_csv" \in Ops(trace)
    /\ world.profile.ok

\* the completion call of the summary step failed or gave no parsable JSON
SuggestUnusable ==
    \/ ~world.suggest.ok
    \/ ~JsonLoads(JsonCandidate(world.suggest.text)).ok

\* C9: analyze_csv, profiling succeeded, the completion call failed or its
\* text is not parsable JSON: status success, content_summary 'A CSV file
\* with <num_cols> columns and <num_rows> rows', and the suggestions are View
\* Statistics, Check Data Quality, Export Filtered Data, Generate Report
\* with ids 1, 2, 3, 4 in that order.
C9_FallbackOnUnusableOutput ==
    (Profiled /\ SuggestUnusable) =>
        /\ env.status = "success"
        /\ env.content_summary =
              <<"A CSV file with ", world.profile.num_cols, " columns and ",
                world.profile.num_rows, " rows">>
        /\ Len(env.suggestions) = 4
        /\ [i \in 1..4 |-> env.suggestions[i].id] = <<1, 2, 3, 4>>
        /\ [i \in 1..4 |-> env.suggestions[i].title] =
              <<T_ViewStatistics, T_CheckDataQuality, T_ExportFilteredData,
                T_GenerateReport>>

\* fenced text that is not JSON, a file of 2 columns and 5 rows
C9_Witness ==
    /\ Profiled
    /\ world.suggest.ok
    /\ ~JsonLoads(JsonCandidate(world.suggest.text)).ok
    /\ world.profile.num_cols = 2
    /\ world.profile.num_rows = 5
    /\ env.status = "success"
    /\ Len(env.suggestions) = 4

\* C10: analyze_csv, profiling succeeded: whatever the summary step does
\* (call failed, unparsable text, JSON without content_summary or
\* suggestions, JSON that is no object), the envelope has status success.
C10_SummaryStepNeverFails ==
    Profiled => env.status = "success"

\* C11: every success envelope of analyze_csv has 4 or 5 suggestions, each
\* with id, title and description, the ids distinct positive integers that
\* start at 1 in list order, whatever JSON the completion call returned.
C11_SuggestionsWellFormed ==
    (Profiled /\ env.status = "success") =>
        /\ Len(env.suggestions) \in {4, 5}
        /\ \A i \in DOMAIN env.suggestions :
              /\ {"id", "title", "description"} \subseteq env.suggestions[i].keys
              /\ env.suggestions[i].id >= 1
              /\ \A h \in DOMAIN env.suggestions :
                    h # i => env.suggestions[h].id # env.suggestions[i].id
        /\ env.suggestions[1].id = 1

\* the call went into generate_code
InCodeGen == TextOnly /\ "generate_code" \in Ops(trace)

\* C12: generate_code, the generation call succeeded and the review call
\* failed: status success, code the extracted code, review 'Review
\* unavailable: ' followed by the reason, and the code is still saved.
C12_ReviewFailureAbsorbed ==
    (InCodeGen /\ world.generate.ok /\ ~world.review.ok) =>
        /\ env.status = "success"
        /\ env.code = ExtractCode(world.generate.text)
        /\ env.review = <<"Review unavailable: ", world.review.err>>
        /\ Count(trace, "save_code_to_file") = 1
        /\ world.save_code.ok => env.filepath # None

C12_Witness ==
    /\ InCodeGen
    /\ world.generate.ok
    /\ ~world.review.ok
    /\ world.save_code.ok
    /\ env.status = "success"
    /\ env.review = <<"Review unavailable: ", "RateLimitError">>
    /\ env.code # <<>>

\* C13: generate_code, the generation call failed: status error, code the
\* empty string, filepath None, and neither the review call nor the save
\* is made.
C13_GenerationFailure ==
    (InCodeGen /\ ~world.generate.ok) =>
        /\ env.status = "error"
        /\ env.code = <<>>
        /\ env.filepath = None
        /\ Ops(trace) \cap {"complete.review", "save_code_to_file"} = {}

C13_Witness ==
    /\ InCodeGen
    /\ ~world.generate.ok
    /\ env.status = "error"
    /\ env.mode = "code_generation"

\* the call went into process_pdf
InPdf == ReturnedFrom("process_message") /\ "process_pdf" \in Ops(trace)

\* C14: when the file write of the save fails, generate_code and process_pdf
\* return an error envelope; a success envelope of either has a filepath
\* that is not None and names a file that was written.
C14_SaveFailureSurfaced ==
    /\ (InCodeGen /\ world.generate.ok /\ ~world.save_code.ok) => env.status = "error"
    /\ (InPdf /\ world.extract.ok /\ ~world.save_text.ok) => env.status = "error"
    /\ ((InCodeGen \/ InPdf) /\ env.status = "success") => env.filepath # None

\* the generation call of the call returned text
Generated == InCodeGen /\ world.generate.ok

\* the lines of the response that start with a fence marker
FenceLines == {i \in DOMAIN world.generate.text : world.generate.text[i].kind = "fence"}

\* the lines of s at the places in idx, in order
Pick(s, idx) ==
    [n \in 1..Cardinality(idx) |->
        s[CHOOSE i \in idx : Cardinality({h \in idx : h < i}) = n - 1]]

\* s without the blank lines at its two ends
Trimmed(s) ==
    LET full == {i \in DOMAIN s : s[i].kind # "blank"}
    IN Pick(s, {i \in DOMAIN s : \E a, b \in full : a <= i /\ i <= b})

\* C15 as stated: ... and for a response with no fence marker at all the
\* extracted code is the response verbatim.
C15_NoFenceVerbatim ==
    (Generated /\ \A i \in DOMAIN world.generate.text :
                     world.generate.text[i].kind \notin {"fence", "inline"})
        => env.code = world.generate.text

\* C15: for a response of prose, a line starting with a fence marker, N code
\* lines, a line starting with a fence marker, and prose, the extracted code
\* is the N code lines in order, no fence line and no prose; for a response
\* with no fence marker at all it is the response with the white space at
\* its two ends stripped.
C15_FenceExtraction ==
    Generated =>
        /\ Cardinality(FenceLines) = 2 =>
              env.code = Pick(world.generate.text,
                              {i \in DOMAIN world.generate.text :
                                  \E a, b \in FenceLines : a < i /\ i < b})
        /\ (\A i \in DOMAIN world.generate.text :
               world.generate.text[i].kind \notin {"fence", "inline"})
              => env.code = Trimmed(world.generate.text)

\* a response without fence whose first and last lines are blank
C15_Witness ==
    /\ Generated
    /\ FenceLines = {}
    /\ Head(world.generate.text).kind = "blank"
    /\ env.code = <<Line("text", 1), Line("blank", 0), Line("text", 2)>>

\* C16 as stated: only the lines between the first opening fence line and
\* the first closing fence line are kept; the lines of a second or later
\* block are not part of the extracted code.
C16_FirstBlockOnly ==
    (Generated /\ Cardinality(FenceLines) >= 2) =>
        env.code = Pick(world.generate.text,
                        {i \in DOMAIN world.generate.text :
                            Cardinality({h \in FenceLines : h < i}) = 1
                            /\ i \notin FenceLines})

\* C16: the scan toggles on every line that starts with a fence marker: the
\* extracted code is the lines of every fenced block, in order, those of a
\* second and later block included; fence lines and the lines outside the
\* blocks are dropped.
C16_EveryBlockKept ==
    (Generated /\ FenceLines # {}) =>
        env.code = Pick(world.generate.text,
                        {i \in DOMAIN world.generate.text :
                            Cardinality({h \in FenceLines : h < i}) % 2 = 1
                            /\ i \notin FenceLines})

\* two fenced blocks of one line each: both lines are in the code
C16_Witness ==
    /\ Generated
    /\ Cardinality(FenceLines) = 4
    /\ env.code = <<Line("text", 1), Line("text", 3)>>

\* the file name _generate_filename gives for each message
C17_Filename(message) ==
    CASE message = M_Factorial -> <<"f","u","n","c","t","i","o","n","_","c","a","l","c","u","l","a","t","e","_","f","a","c","t","o","r","i","a","l">>
      [] message = M_Hello -> <<"h","e","l","l","o","_","t","h","e","r","e">>
      [] message = M_SortScript -> <<"p","y","t","h","o","n","_","s","c","r","i","p","t","_","s","o","r","t","_","l","i","s","t">>
      [] message = M_MakeCode -> <<"g","e","n","e","r","a","t","e","d","_","c","o","d","e">>
      [] message = M_Implementation ->
            <<"i","m","p","l","e","m","e","n","t","a","t","i","o","n","_","i","m","p","l","e","m","e","n","t","a","t","i","o","n","_","i","m","p","l","e","m","e","n","t","a","t","i","o","n","_","i","m","p","l","e">>

\* the extension of a language: .txt for one the table does not have
C17_Ext(language) ==
    CASE language = "python" -> <<".","p","y">>
      [] language = "javascript" -> <<".","j","s">>
      [] OTHER -> <<".","t","x","t">>

\* C17: the file name is the first four lower-cased tokens of the prompt
\* that are no stop word and are alphanumeric, joined by underscores,
\* 'generated_code' when there is none, cut to 50 characters;
\* save_code_to_file appends the extension of the language (.txt for an
\* unknown one) unless the name ends with it already.  'Write a function to
\* calculate factorial' in python is saved as function_calculate_factorial.py.
C17_FilenameDerivation ==
    /\ Generated =>
          /\ env.filename = C17_Filename(call.message)
          /\ Len(env.filename) <= 50
          /\ world.save_code.ok =>
                env.filepath.name = env.filename \o C17_Ext(env.language)
          /\ (call.message = M_Factorial /\ env.language = "python" /\ world.save_code.ok)
                => env.filepath.name = <<"f","u","n","c","t","i","o","n","_","c","a","l","c","u","l","a","t","e","_","f","a","c","t","o","r","i","a","l",".","p","y">>
    /\ (ReturnedFrom("save_code_to_file") /\ env.status = "success") =>
          env.filepath.name =
              IF call.filename = F_SnippetPy /\ call.language = "python"
              THEN F_SnippetPy
              ELSE call.filename \o C17_Ext(call.language)

\* five surviving tokens, one token that is not alphanumeric, an unknown
\* language
C17_Witness ==
    /\ Generated
    /\ call.message = M_SortScript
    /\ env.language = "rust"
    /\ world.save_code.ok
    /\ env.filepath.name = <<"p","y","t","h","o","n","_","s","c","r","i","p","t","_","s","o","r","t","_","l","i","s","t",".","t","x","t">>

\* C18: every envelope of execute_action, success or error, whatever the
\* action_id and the prior analysis (a non-integer action_id and an analysis
\* without usable suggestions included), has a log_file field holding the
\* path of the log file.
C18_LogFileOnEveryEnvelope ==
    (ReturnedFrom("execute_csv_action") /\ world.logger.ok) =>
        /\ "log_file" \in DOMAIN env
        /\ env.log_file = LogFilePath

\* the place in the trace of the one event named op
Pos(op) == CHOOSE i \in DOMAIN trace : trace[i].op = op

\* the chosen action raised inside its own try
ActionRaised ==
    /\ Entered(ActionHandlers) = <<"_execute_filter">>
    /\ ~world.read_csv.ok \/ ~world.to_csv.ok

C20_PdfSteps ==
    InPdf =>
        /\ ~world.extract.ok =>
              /\ env.status = "error"
              /\ env.message = <<"Error extracting PDF: ", world.extract.err>>
              /\ env.text = <<>> /\ env.page_count = 0 /\ env.word_count = 0
              /\ Ops(trace) \cap {"save_text_to_file", "complete.summary"} = {}
        /\ world.extract.ok =>
              Entered({"extract_pdf_text", "save_text_to_file", "complete.summary"})
                  = <<"extract_pdf_text", "save_text_to_file", "complete.summary">>
        /\ (world.extract.ok /\ ~world.summarize.ok) =>
              /\ env.status = "success"
              /\ env.summary = <<"Extracted ", world.extract.words, " words from ",
                                 world.extract.page_count, " pages.">>

\* 3 words on 2 pages and a summary call that failed
C20_Witness ==
    /\ InPdf
    /\ world.extract.ok
    /\ world.extract.words = 3
    /\ world.extract.page_count = 2
    /\ ~world.summarize.ok
    /\ env.summary = <<"Extracted ", 3, " words from ", 2, " pages.">>

FirstOf(s, kinds, n) ==
    IF \E i \in n..Len(s) : s[i].t \in kinds
    THEN CHOOSE i \in n..Len(s) :
            s[i].t \in kinds /\ \A h \in n..(i - 1) : s[h].t \notin kinds
    ELSE Len(s) + 1

\* the candidate as the parsing rule words it: between the first fence
\* tagged json and the next fence; else between the first two fences; else
\* the whole text; trimmed
C23_Candidate(text) ==
    LET open == IF \E i \in DOMAIN text : text[i].t = "jsonfence"
                THEN FirstOf(text, {"jsonfence"}, 1)
                ELSE FirstOf(text, {"fence"}, 1)
    IN IF open > Len(text) THEN Strip(text)
       ELSE Strip(SubSeq(text, open + 1,
                         FirstOf(text, {"fence", "jsonfence"}, open + 1) - 1))

\* the candidate is JSON when it is one JSON value and nothing else
C23_IsJson(cand) == Len(cand) = 1 /\ cand[1].t = "json"

\* C23: the parsing of a classifier response and of a suggestion response
\* takes the candidate the rule names and parses it as JSON: a json-tagged
\* fence around an object inside prose yields the object; a candidate that
\* is no JSON makes the caller use its fallback, and nothing is raised past
\* the caller.
C23_StructuredOutputParsing ==
    /\ (TextOnly /\ world.classify.ok) =>
          LET cand == C23_Candidate(world.classify.text) IN
          IF C23_IsJson(cand)
          THEN (/\ cand[1].j.k = "dict"
                /\ cand[1].j.type = "code_generation"
                /\ cand[1].j.confKind = "num"
                /\ cand[1].j.conf >= 60) => env.mode = "code_generation"
          ELSE /\ env.mode = "general_chat"
               /\ env.status \in {"success", "error"}
    /\ (Profiled /\ world.suggest.ok) =>
          LET cand == C23_Candidate(world.suggest.text) IN
          IF C23_IsJson(cand)
          THEN (cand[1].j.k = "dict"
                /\ cand[1].j.keys = {"content_summary", "suggestions"})
                   => /\ env.status = "success"
                      /\ env.content_summary = cand[1].j.content_summary
                      /\ env.suggestions = cand[1].j.suggestions
          ELSE /\ env.status = "success"
               /\ env.suggestions = FallbackSuggestions

\* an object in a json-tagged fence, prose before and after
C23_Witness ==
    /\ Profiled
    /\ world.suggest.ok
    /\ Len(world.suggest.text) = 7
    /\ world.suggest.text[1].t = "prose"
    /\ world.suggest.text[2].t = "jsonfence"
    /\ world.suggest.text[7].t = "prose"
    /\ env.status = "success"
    /\ env.suggestions = ModelSuggestions5

\* C27: with the fallback suggestion list as prior analysis, the action run
\* for the id of a listed suggestion is the one its title names: 1 'View
\* Statistics' Statistics, 2 'Check Data Quality' Quality-check, 3 'Export
\* Filtered Data' Filter/export, 4 'Generate Report' Report.
C27_FallbackIdsRunTheirTitles ==
    (/\ Dispatched
     /\ call.analysis = Analysis(FallbackSuggestions)
     /\ call.action_id.n \in 1..4) =>
        Entered(ActionHandlers) =
            << CASE call.action_id.n = 1 -> "_execute_statistics"
                 [] call.action_id.n = 2 -> "_execute_quality_check"
                 [] call.action_id.n = 3 -> "_execute_filter"
                 [] call.action_id.n = 4 -> "_execute_report" >>

ReportSteps == {"calculate_detailed_statistics", "check_data_quality", "generate_csv_report"}

\* C28: the Report action computes the statistics, then the quality report,
\* then renders and saves the HTML report; the first step whose result is
\* not a success ends the action with that result and the later steps are
\* not run; on success files_created holds the saved report path alone,
\* equal to report_path; the report is written only when both computations
\* succeeded.
C28_ReportSteps ==
    (Dispatched /\ Entered(ActionHandlers) = <<"_execute_report">>) =>
        /\ Entered(ReportSteps) =
              IF ~world.stats.ok THEN <<"calculate_detailed_statistics">>
              ELSE IF ~world.quality.ok
              THEN <<"calculate_detailed_statistics", "check_data_quality">>
              ELSE <<"calculate_detailed_statistics", "check_data_quality",
                     "generate_csv_report">>
        /\ ~world.stats.ok =>
              /\ env.status = "error"
              /\ env.message = <<"Error calculating statistics: ", world.stats.err>>
        /\ (world.stats.ok /\ ~world.quality.ok) =>
              /\ env.status = "error"
              /\ env.message = <<"Error checking data quality: ", world.quality.err>>
        /\ (world.stats.ok /\ world.quality.ok /\ ~world.report.ok) =>
              /\ env.status = "error"
              /\ env.message = <<"Error generating report: ", world.report.err>>
        /\ (world.stats.ok /\ world.quality.ok /\ world.report.ok) =>
              /\ env.status = "success"
              /\ env.files_created = <<env.report_path>>
              /\ env.report_path.dir = "reports"

\* the statistics succeeded, the quality check failed: no report written
C28_Witness ==
    /\ Dispatched
    /\ Entered(ActionHandlers) = <<"_execute_report">>
    /\ world.stats.ok
    /\ ~world.quality.ok
    /\ env.status = "error"
    /\ "generate_csv_report" \notin Ops(trace)

\* the envelope is the one analyze_csv builds from the fallback
IsFallbackEnvelope(e) ==
    /\ e.status = "success"
    /\ e.suggestions = FallbackSuggestions
    /\ e.content_summary[1] = "A CSV file with "

HasMissing(df) ==
    {df.columns[c] : c \in {c \in DOMAIN df.columns : \E i \in DOMAIN df.rows : df.rows[i][c].null}}

\* C24: missing_values lists exactly the columns with at least one missing
\* value, each with its count and count*100/rows; duplicates gives the number
\* of rows equal to an earlier row, and that number*100/rows; the ten-row
\* table with 2 nulls in one column and one repeated row gives count 2,
\* percentage 20.0, total_duplicates 1, duplicate_percentage 10.0.
C24_QualityReport ==
    (quality # None /\ table.ok) =>
        LET report == quality.quality_report
            rows == table.rows
            n == Len(rows)
            dups == Cardinality({i \in DOMAIN rows : \E j \in DOMAIN rows : j < i /\ rows[j] = rows[i]})
        IN /\ quality.status = "success"
           /\ DOMAIN report.missing_values = HasMissing(table)
           /\ \A c \in DOMAIN table.columns :
                 LET col == table.columns[c]
                     count == Cardinality({i \in DOMAIN rows : rows[i][c].null})
                 IN col \in HasMissing(table) =>
                       /\ report.missing_values[col].count = count
                       /\ report.missing_values[col].percentage.num * n
                             = count * 100 * report.missing_values[col].percentage.den
           /\ report.duplicates.total_duplicates = dups
           /\ n > 0 => report.duplicates.duplicate_percentage.num * n
                          = dups * 100 * report.duplicates.duplicate_percentage.den
           /\ table = TenRows =>
                 /\ report.missing_values = [c \in {"b"} |-> [count |-> 2, percentage |-> Float(20)]]
                 /\ report.duplicates = [total_duplicates |-> 1, duplicate_percentage |-> Float(10)]

\* the ten-row table has been checked
C24_Witness ==
    /\ table = TenRows
    /\ quality # None
    /\ quality.status = "success"
    /\ DOMAIN quality.quality_report.missing_values = {"b"}

\* how many elements of a sequence satisfy being equal to x
Times(seq, x) ==
    Cardinality({i \in DOMAIN seq : seq[i] = x})

\* C25: with requests constructing CSVActionLogger concurrently, the
\* 'csv_actions' logger has at most one file handler and at most one console
\* handler, and no record is in a log file more than once.
C25_HandlersRegisteredOnce ==
    /\ Cardinality({i \in DOMAIN handlers : handlers[i].kind = "file"}) <= 1
    /\ Cardinality({i \in DOMAIN handlers : handlers[i].kind = "console"}) <= 1
    /\ \A p \in LogFilePaths : \A i \in DOMAIN logfiles[p] :
          Times(logfiles[p], logfiles[p][i]) = 1

\* C26: the log_file of an action result names the file that holds the start
\* and result records of that action.
C26_LogFileNamesFileWritten ==
    \A r \in results :
        \A what \in {"start", "result"} :
            Times(logfiles[r.log_file], [thread |-> r.thread, req |-> r.req, what |-> what]) >= 1

\* the positions in a sequence of events of those with this op
At(events, op) ==
    {i \in DOMAIN events : events[i].op = op}

\* the assistant messages stored in the session
AssistantMessages ==
    {i \in DOMAIN messages : messages[i].role = "assistant"}

\* send_message answered a request that the serializer accepted
SentMessage ==
    /\ served # None
    /\ served.request.view = "send_message"
    /\ served.request.valid

\* C29: a send_message request that passes validation: the user message is
\* stored before the router runs and exactly one assistant message after it;
\* when the router returned an envelope, that message has the envelope as
\* metadata and its mode (general_chat if absent), and the AgentExecution row
\* has success true exactly when the status is 'success'; when routing
\* raised, the one assistant message has mode 'error'.
C29_SendMessageStorage ==
    SentMessage =>
        /\ Len(messages) >= 1
        /\ messages[1].role = "user"
        /\ \A i \in At(served.events, "RouterAgent") :
              \E h \in At(served.events, "user_message") : h < i
        /\ Cardinality(AssistantMessages) = 1
        /\ \A i \in At(served.events, "process_message") :
              LET envelope == served.events[i].args
                  m == messages[CHOOSE h \in AssistantMessages : TRUE]
              IN /\ m.metadata = envelope
                 /\ m.mode = Get(envelope, "mode", "general_chat")
                 /\ Len(executions) = 1
                 /\ executions[1].success = (envelope.status = "success")
        /\ At(served.events, "process_message") = {} =>
              messages[CHOOSE h \in AssistantMessages : TRUE].mode = "error"

\* execute_csv_action answered a request whose action_id is 0 or absent
ZeroOrAbsentId ==
    /\ served # None
    /\ served.request.view = "execute_csv_action"
    /\ \/ served.request.action_id.k = "none"
       \/ served.request.action_id.k = "int" /\ served.request.action_id.n = 0

\* C30: execute_csv_action answers a request whose action_id is 0 or absent
\* with 400 before a router is made: the dispatcher is not called, no message
\* is stored, and no call of the dispatcher through the endpoint has the
\* action_id 0.
C30_ZeroIdRejected ==
    /\ ZeroOrAbsentId =>
          /\ served.code = 400
          /\ served.events = <<>>
          /\ messages = <<>>
    /\ (served # None /\ served.request.view = "execute_csv_action") =>
          \A i \in At(served.events, "execute_csv_action") :
              /\ served.events[i].action_id.k # "none"
              /\ served.events[i].action_id.k = "int" => served.events[i].action_id.n # 0

\* a request for action 0 of an analysis that names it, with the session and
\* the path given, was answered
C30_Witness ==
    /\ ZeroOrAbsentId
    /\ served.request.action_id.k = "int"
    /\ served.request.session_id = "known"
    /\ served.request.csv_path = P_DataCsv
    /\ served.request.analysis = Analysis(<< Suggestion(0, T_GenerateReport, "d") >>)
    /\ served.code = 400

====
